---- MODULE Spec2Model ----
\* TxEditor: the editor store (layers, active layer, cursor, bounded
\* undo/redo history) of src/src/store/editorStore.ts, together with the
\* cell helpers of src/src/core/cells.ts and the figure insertion of
\* src/src/core/figureInsert.ts that the store's callers run.
\*
\* Representation.
\*   - A grapheme is the sequence of its code points; a string is the
\*     sequence of its graphemes (what toCells returns for it).  CR LF is one
\*     grapheme, as the platform segmenter reports it.
\*   - A lines array is a JavaScript object: it is modelled as
\*     [ref, rows] where ref is the identity of the array and rows its
\*     content.  Two buffers alias the same array iff their refs are equal.
\*     No code of the repository writes into a lines array after it was
\*     handed to the store (every editor command works on cloneLines), so
\*     the content travels with the identity.
\*   - A layer id 'layer-N' is the integer N.
EXTENDS Integers, Sequences, FiniteSets, TLC

VARIABLES width, height, layers, activeLayerId, cursor, past, future,
          lastOp, steps,
          saved,      \* the contents last handed to write_text_file
          call, ret,  \* a helper's invocation in progress and what it returned
          ui          \* the state and refs of the App component

vars == <<width, height, layers, activeLayerId, cursor, past, future, lastOp, steps,
          saved, call, ret, ui>>

\* ------------------------------------------------------------------ bounds
MaxSteps == 3
MaxLayers == 3

\* ------------------------------------------------------------- generic
Min(a, b) == IF a < b THEN a ELSE b
Max(a, b) == IF a > b THEN a ELSE b
Last(q) == q[Len(q)]
Front(q) == SubSeq(q, 1, Len(q) - 1)
Repeat(x, n) == [i \in 1..n |-> x]

\* ------------------------------------------------------------- cells.ts
CONTINUATION_CELL == <<1>>
TRANSPARENT_CELL == <<0>>
SPACE == <<32>>
LF == <<10>>
CR == <<13>>
CRLF == <<13, 10>>
LatinA == <<97>>
LatinB == <<98>>
Hangul == <<44032>>

isFullWidthCodePoint(codePoint) ==
  IF codePoint < 4352 THEN FALSE
  ELSE IF codePoint = 9001 \/ codePoint = 9002 THEN TRUE
  ELSE IF codePoint >= 4352 /\ codePoint <= 4447 THEN TRUE
  ELSE IF codePoint >= 11904 /\ codePoint <= 12871 /\ codePoint # 12351 THEN TRUE
  ELSE IF codePoint >= 12880 /\ codePoint <= 19903 THEN TRUE
  ELSE IF codePoint >= 19968 /\ codePoint <= 42182 THEN TRUE
  ELSE IF codePoint >= 43360 /\ codePoint <= 43388 THEN TRUE
  ELSE IF codePoint >= 44032 /\ codePoint <= 55203 THEN TRUE
  ELSE IF codePoint >= 63744 /\ codePoint <= 64255 THEN TRUE
  ELSE IF codePoint >= 65040 /\ codePoint <= 65049 THEN TRUE
  ELSE IF codePoint >= 65072 /\ codePoint <= 65131 THEN TRUE
  ELSE IF codePoint >= 65281 /\ codePoint <= 65376 THEN TRUE
  ELSE IF codePoint >= 65504 /\ codePoint <= 65510 THEN TRUE
  ELSE IF codePoint >= 110592 /\ codePoint <= 110593 THEN TRUE
  ELSE IF codePoint >= 127488 /\ codePoint <= 127569 THEN TRUE
  ELSE IF codePoint >= 131072 /\ codePoint <= 262141 THEN TRUE
  ELSE FALSE

isWideGrapheme(grapheme) ==
  IF grapheme = <<>> THEN FALSE
  ELSE IF grapheme = CONTINUATION_CELL THEN FALSE
  ELSE \E k \in 1..Len(grapheme) :
         LET cp == grapheme[k] IN
           \/ cp = 8205
           \/ cp = 65039
           \/ (cp >= 127744 /\ cp <= 129791)
           \/ isFullWidthCodePoint(cp)

cellDisplayWidth(grapheme) == IF isWideGrapheme(grapheme) THEN 2 ELSE 1

\* A string is held as its grapheme sequence, so toCells is the view of it.
toCells(text) == text

\* cells[i] ?? ''
CellOr(cells, i) == IF i >= 1 /\ i <= Len(cells) THEN cells[i] ELSE <<>>

RECURSIVE SkipContinuation(_, _)
SkipContinuation(cells, j) ==
  IF CellOr(cells, j) = CONTINUATION_CELL THEN SkipContinuation(cells, j + 1) ELSE j

RECURSIVE cellLengthFrom(_, _)
cellLengthFrom(cells, i) ==
  IF i > Len(cells) THEN 0
  ELSE LET ch == cells[i] IN
    IF ch = CONTINUATION_CELL THEN 1 + cellLengthFrom(cells, i + 1)
    ELSE LET w == cellDisplayWidth(ch) IN
      IF w = 2 /\ CellOr(cells, i + 1) = CONTINUATION_CELL
      THEN 2 + cellLengthFrom(cells, SkipContinuation(cells, i + 1))
      ELSE w + cellLengthFrom(cells, i + 1)

cellLength(text) == cellLengthFrom(toCells(text), 1)

RECURSIVE sliceCellsFrom(_, _, _, _)
sliceCellsFrom(cells, i, col, w0) ==
  IF i > Len(cells) THEN <<>>
  ELSE LET ch == cells[i] IN
    IF ch = <<>> THEN sliceCellsFrom(cells, i + 1, col, w0)
    ELSE IF ch = LF \/ ch = CR THEN <<>>
    ELSE IF ch = CONTINUATION_CELL THEN
      IF col + 1 > w0 THEN <<>>
      ELSE <<CONTINUATION_CELL>> \o sliceCellsFrom(cells, i + 1, col + 1, w0)
    ELSE IF cellDisplayWidth(ch) = 2 THEN
      IF col + 2 > w0 THEN <<>>
      ELSE <<ch, CONTINUATION_CELL>>
             \o sliceCellsFrom(cells, SkipContinuation(cells, i + 1), col + 2, w0)
    ELSE IF col + 1 > w0 THEN <<>>
    ELSE <<ch>> \o sliceCellsFrom(cells, i + 1, col + 1, w0)

sliceCells(text, w0) == IF ~(w0 > 0) THEN <<>> ELSE sliceCellsFrom(toCells(text), 1, 0, w0)

\* ------------------------------------------------------- object identity
\* The smallest array identities not in use.
RECURSIVE NextFree(_, _)
NextFree(used, from) == IF from \in used THEN NextFree(used, from + 1) ELSE from

RECURSIVE FreshRefs(_, _)
FreshRefs(used, n) ==
  IF n = 0 THEN <<>>
  ELSE LET r == NextFree(used, 1) IN <<r>> \o FreshRefs(used \cup {r}, n - 1)

LayerRefs(ls) == {ls[i].buffer.lines.ref : i \in 1..Len(ls)}
HistoryRefs(h) == UNION {LayerRefs(h[i].layers) : i \in 1..Len(h)}
UsedRefs(s) == LayerRefs(s.layers) \cup HistoryRefs(s.past) \cup HistoryRefs(s.future)

\* -------------------------------------------------------- editorStore.ts
NullCursor == [null |-> TRUE, row |-> 0, col |-> 0]
CellCursor(r, c) == [null |-> FALSE, row |-> r, col |-> c]

\* a lines array with a given identity
NewLines(ref, rows) == [ref |-> ref, rows |-> rows]

\* the clamp without its upper bound
clampInt_NoCeiling(v, min, max) == Max(min, v)

\* The sizes given here are integers, so Number.isFinite holds and
\* Math.floor changes nothing.
clampInt(v, min, max) == Max(min, Min(max, v))

createEmptyBuffer(w, h, ref) ==
  [width |-> w, height |-> h, lines |-> NewLines(ref, Repeat(<<>>, h))]

createLayer(id, name, buffer) ==
  [id |-> id, name |-> name, visible |-> TRUE, locked |-> FALSE, buffer |-> buffer]

BackgroundName == [text |-> "Background", n |-> 0]
LayerName(n) == [text |-> "Layer", n |-> n]

\* text.replace(/\r\n/g, '\n')
ReplaceCRLF(text) == [i \in 1..Len(text) |-> IF text[i] = CRLF THEN LF ELSE text[i]]

\* normalized.split('\n')
RECURSIVE SplitLF(_)
SplitLF(text) ==
  IF \A i \in 1..Len(text) : text[i] # LF THEN <<text>>
  ELSE LET k == CHOOSE i \in 1..Len(text) :
                  text[i] = LF /\ \A j \in 1..(i - 1) : text[j] # LF
       IN <<SubSeq(text, 1, k - 1)>> \o SplitLF(SubSeq(text, k + 1, Len(text)))

normalizeTextToBuffer(text, w, h, ref) ==
  LET normalized == ReplaceCRLF(text)
      rawLines == SplitLF(normalized)
  IN [width |-> w, height |-> h,
      lines |-> NewLines(ref, [i \in 1..h |->
                  sliceCells(IF i <= Len(rawLines) THEN rawLines[i] ELSE <<>>, w)])]

\* cloneLayers that copies the layer list but shares the lines arrays
cloneLayers_Shallow(ls, used) == ls

\* Deep clone for history: every layer gets a new lines array.
cloneLayers(ls, used) ==
  LET refs == FreshRefs(used, Len(ls)) IN
    [i \in 1..Len(ls) |->
      [ls[i] EXCEPT !.buffer = [ls[i].buffer EXCEPT !.lines =
         NewLines(refs[i], ls[i].buffer.lines.rows)]]]

historyLimitForSize(w, h) ==
  LET cells == w * h IN
    IF cells <= 100 * 100 THEN 200
    ELSE IF cells <= 300 * 300 THEN 100
    ELSE IF cells <= 1000 * 1000 THEN 50
    ELSE 20

HistoryEntry(current, used) ==
  [layers |-> cloneLayers(current.layers, used),
   activeLayerId |-> current.activeLayerId,
   width |-> current.width,
   height |-> current.height]

\* appendPast that never drops an entry
appendPast_NoLimit(pst, current, limit, used) ==
  Append(pst, HistoryEntry(current, used))

appendPast(pst, current, limit, used) ==
  LET entry == HistoryEntry(current, used)
      next == Append(pst, entry)
  IN IF Len(next) <= limit THEN next
     ELSE SubSeq(next, Len(next) - limit + 1, Len(next))

prependFuture(fut, current, limit, used) ==
  LET entry == HistoryEntry(current, used)
      next == <<entry>> \o fut
  IN IF Len(next) <= limit THEN next
     ELSE SubSeq(next, 1, limit)


\* The store's state as one value, the `s` of zustand's set((s) => ...).
StoreState(w, h, ls, active, cur, pst, fut) ==
  [width |-> w, height |-> h, layers |-> ls, activeLayerId |-> active,
   cursor |-> cur, past |-> pst, future |-> fut]

\* layers.find(l => l.id === id): index of the first layer with that id, 0 if none
FindLayerIndex(ls, id) ==
  IF \E i \in 1..Len(ls) : ls[i].id = id
  THEN CHOOSE i \in 1..Len(ls) : ls[i].id = id /\ \A j \in 1..(i - 1) : ls[j].id # id
  ELSE 0

\* activeLayer?.locked
ActiveLayerLocked(s) ==
  LET i == FindLayerIndex(s.layers, s.activeLayerId) IN
    IF i = 0 THEN FALSE ELSE s.layers[i].locked

getBuffer(s) ==
  LET i == FindLayerIndex(s.layers, s.activeLayerId) IN
    IF i = 0 THEN s.layers[1].buffer ELSE s.layers[i].buffer

InitialState ==
  StoreState(80, 24,
             <<createLayer(1, BackgroundName, createEmptyBuffer(80, 24, 1))>>,
             1, NullCursor, <<>>, <<>>)

setCursor(s, c) == [s EXCEPT !.cursor = c]

newBuffer(s, w0, h0) ==
  LET w == clampInt(w0, 1, 2000)
      h == clampInt(h0, 1, 2000)
      ref == NextFree(UsedRefs(s), 1)
      newLayer == createLayer(1, BackgroundName, createEmptyBuffer(w, h, ref))
      limit == historyLimitForSize(w, h)
  IN StoreState(w, h, <<newLayer>>, 1, NullCursor,
                appendPast(s.past, s, limit, UsedRefs(s) \cup {ref}), <<>>)

setBufferFromText(s, text) ==
  IF ActiveLayerLocked(s) THEN s
  ELSE
    LET ref == NextFree(UsedRefs(s), 1)
        nextBuffer == normalizeTextToBuffer(text, s.width, s.height, ref)
        nextLayers == [i \in 1..Len(s.layers) |->
                        IF s.layers[i].id = s.activeLayerId
                        THEN [s.layers[i] EXCEPT !.buffer = nextBuffer]
                        ELSE s.layers[i]]
        limit == historyLimitForSize(s.width, s.height)
    IN [s EXCEPT !.layers = nextLayers,
                 !.past = appendPast(s.past, s, limit, UsedRefs(s) \cup {ref}),
                 !.future = <<>>]

loadBufferFromTextAutoSize(s, text) ==
  LET normalized == ReplaceCRLF(text)
      rawLines == SplitLF(normalized)
      maxLen == LET RECURSIVE MaxCellLength(_)
                    MaxCellLength(k) ==
                      IF k = 0 THEN 0
                      ELSE Max(MaxCellLength(k - 1), cellLength(rawLines[k]))
                IN MaxCellLength(Len(rawLines))
      h == clampInt(IF Len(rawLines) # 0 THEN Len(rawLines) ELSE 1, 1, 2000)
      w == clampInt(IF maxLen # 0 THEN maxLen ELSE 1, 1, 2000)
      ref == NextFree(UsedRefs(s), 1)
      nextBuffer == normalizeTextToBuffer(normalized, w, h, ref)
      newLayer == createLayer(1, BackgroundName, nextBuffer)
      limit == historyLimitForSize(w, h)
  IN StoreState(w, h, <<newLayer>>, 1, NullCursor,
                appendPast(s.past, s, limit, UsedRefs(s) \cup {ref}), <<>>)

\* commitBuffer without its lock check
commitBuffer_NoLockCheck(s, nextBuffer) ==
  LET nextLayers == [i \in 1..Len(s.layers) |->
                      IF s.layers[i].id = s.activeLayerId
                      THEN [s.layers[i] EXCEPT !.buffer = nextBuffer]
                      ELSE s.layers[i]]
      limit == historyLimitForSize(s.width, s.height)
  IN [s EXCEPT !.layers = nextLayers,
               !.past = appendPast(s.past, s, limit,
                                   UsedRefs(s) \cup {nextBuffer.lines.ref}),
               !.future = <<>>,
               !.cursor = NullCursor]

commitBuffer(s, nextBuffer) ==
  IF ActiveLayerLocked(s) THEN s
  ELSE
    LET nextLayers == [i \in 1..Len(s.layers) |->
                        IF s.layers[i].id = s.activeLayerId
                        THEN [s.layers[i] EXCEPT !.buffer = nextBuffer]
                        ELSE s.layers[i]]
        limit == historyLimitForSize(s.width, s.height)
    IN [s EXCEPT !.layers = nextLayers,
                 !.past = appendPast(s.past, s, limit,
                                     UsedRefs(s) \cup {nextBuffer.lines.ref}),
                 !.future = <<>>,
                 !.cursor = NullCursor]

\* now: the value of Date.now() at the call
addLayer(s, now) ==
  LET newId == now
      ref == NextFree(UsedRefs(s), 1)
      newLayer == createLayer(newId, LayerName(Len(s.layers) + 1),
                              createEmptyBuffer(s.width, s.height, ref))
      limit == historyLimitForSize(s.width, s.height)
  IN [s EXCEPT !.layers = Append(s.layers, newLayer),
               !.activeLayerId = newId,
               !.past = appendPast(s.past, s, limit, UsedRefs(s) \cup {ref}),
               !.future = <<>>]

\* removeLayer that accepts a single-layer session and keeps the active id
\* when no layer is left
removeLayer_NoGuard(s, id) ==
  LET nextLayers == SelectSeq(s.layers, LAMBDA l : l.id # id)
      limit == historyLimitForSize(s.width, s.height)
  IN [s EXCEPT !.layers = nextLayers,
               !.activeLayerId = IF s.activeLayerId = id /\ nextLayers # <<>>
                                 THEN nextLayers[Len(nextLayers)].id
                                 ELSE s.activeLayerId,
               !.past = appendPast(s.past, s, limit, UsedRefs(s)),
               !.future = <<>>]

\* nextLayers[nextLayers.length - 1].id throws a TypeError when the filter
\* left no layer; the exception leaves set() without a new state.
removeLayer(s, id) ==
  IF Len(s.layers) <= 1 THEN s
  ELSE
    LET nextLayers == SelectSeq(s.layers, LAMBDA l : l.id # id)
        limit == historyLimitForSize(s.width, s.height)
    IN IF s.activeLayerId = id /\ nextLayers = <<>> THEN s
       ELSE [s EXCEPT !.layers = nextLayers,
                      !.activeLayerId = IF s.activeLayerId = id
                                        THEN nextLayers[Len(nextLayers)].id
                                        ELSE s.activeLayerId,
                      !.past = appendPast(s.past, s, limit, UsedRefs(s)),
                      !.future = <<>>]

selectLayer(s, id) == [s EXCEPT !.activeLayerId = id]

toggleLayerVisibility(s, id) ==
  [s EXCEPT !.layers = [i \in 1..Len(s.layers) |->
     IF s.layers[i].id = id
     THEN [s.layers[i] EXCEPT !.visible = ~s.layers[i].visible]
     ELSE s.layers[i]]]

toggleLayerLock(s, id) ==
  [s EXCEPT !.layers = [i \in 1..Len(s.layers) |->
     IF s.layers[i].id = id
     THEN [s.layers[i] EXCEPT !.locked = ~s.layers[i].locked]
     ELSE s.layers[i]]]

setLayerName(s, id, name) ==
  LET limit == historyLimitForSize(s.width, s.height) IN
    [s EXCEPT !.layers = [i \in 1..Len(s.layers) |->
                IF s.layers[i].id = id
                THEN [s.layers[i] EXCEPT !.name = name]
                ELSE s.layers[i]],
              !.past = appendPast(s.past, s, limit, UsedRefs(s)),
              !.future = <<>>]

\* undo that forgets to restore the session size
undo_KeepSize(s) ==
  IF s.past = <<>> THEN s
  ELSE
    LET last == Last(s.past)
        limit == historyLimitForSize(s.width, s.height)
        fut == prependFuture(s.future, s, limit, UsedRefs(s))
    IN [s EXCEPT !.past = Front(s.past),
                 !.future = fut,
                 !.layers = cloneLayers(last.layers, UsedRefs(s) \cup HistoryRefs(fut)),
                 !.activeLayerId = last.activeLayerId]

undo(s) ==
  IF s.past = <<>> THEN s
  ELSE
    LET last == Last(s.past)
        limit == historyLimitForSize(s.width, s.height)
        fut == prependFuture(s.future, s, limit, UsedRefs(s))
    IN [s EXCEPT !.past = Front(s.past),
                 !.future = fut,
                 !.layers = cloneLayers(last.layers, UsedRefs(s) \cup HistoryRefs(fut)),
                 !.activeLayerId = last.activeLayerId,
                 !.width = last.width,
                 !.height = last.height]

redo(s) ==
  IF s.future = <<>> THEN s
  ELSE
    LET next == Head(s.future)
        limit == historyLimitForSize(s.width, s.height)
        pst == appendPast(s.past, s, limit, UsedRefs(s))
    IN [s EXCEPT !.past = pst,
                 !.future = Tail(s.future),
                 !.layers = cloneLayers(next.layers, UsedRefs(s) \cup HistoryRefs(pst)),
                 !.activeLayerId = next.activeLayerId,
                 !.width = next.width,
                 !.height = next.height]

toDisplayText(text) ==
  [i \in 1..Len(text) |-> IF text[i] = CONTINUATION_CELL THEN SPACE ELSE text[i]]

padCells(text, w0) ==
  LET len == cellLength(text)
  IN IF len >= w0 THEN text ELSE text \o Repeat(SPACE, w0 - len)

\* cells[i] ?? '' for a 0-based index i
CellAt(cells, i) == CellOr(cells, i + 1)

\* lines[row] ?? '' for a 0-based row
LineOr(rows, row) == IF row >= 0 /\ row < Len(rows) THEN rows[row + 1] ELSE <<>>

cloneLines(rows, h) == [i \in 1..h |-> LineOr(rows, i - 1)]

\* while (start > 0 && (cells[start] ?? '') === CONTINUATION_CELL) start -= 1
RECURSIVE WalkBack(_, _)
WalkBack(cells, start) ==
  IF start > 0 /\ CellAt(cells, start) = CONTINUATION_CELL
  THEN WalkBack(cells, start - 1) ELSE start

\* for (i = from; i < cells.length; i += 1) { if not a continuation: break;
\*   cells[i] = ' ' }
RECURSIVE BlankRun(_, _)
BlankRun(cells, from) ==
  IF from < Len(cells) /\ CellAt(cells, from) = CONTINUATION_CELL
  THEN BlankRun([cells EXCEPT ![from + 1] = SPACE], from + 1) ELSE cells

\* cells[start] = ' ' for the owner of the continuation at col, then the
\* continuation run after it
BlankOwner(cells, col) ==
  LET start == WalkBack(cells, col)
  IN BlankRun([cells EXCEPT ![start + 1] = SPACE], start + 1)

\* setCharInLines that writes the cell without blanking the glyph it cuts
setCharInRow_NoBlank(src, col, ch0, w0) ==
  LET cells == toCells(src)
      placed == IF Len(cells) <= col
                THEN cells \o Repeat(SPACE, col - Len(cells)) \o <<ch0>>
                ELSE [cells EXCEPT ![col + 1] = ch0]
  IN SubSeq(placed, 1, Min(w0, Len(placed)))

\* setCharInLines with the row guard passed: the new text of the row.  The
\* graphemes written here do not join with their neighbours, so the cells
\* of the joined string are the cells that were joined.
setCharInRow(src, col, ch0, w0) ==
  LET cells == toCells(src)
      ch == IF ch0 # CONTINUATION_CELL /\ cellDisplayWidth(ch0) = 2 /\ col + 1 >= w0
            THEN SPACE ELSE ch0
      placed ==
        IF Len(cells) <= col
        THEN cells \o Repeat(SPACE, col - Len(cells)) \o <<ch>>
        ELSE LET cleared ==
                   IF ch # CONTINUATION_CELL
                   THEN IF CellAt(cells, col) = CONTINUATION_CELL
                        THEN BlankOwner(cells, col)
                        ELSE BlankRun(cells, col + 1)
                   ELSE cells
             IN [cleared EXCEPT ![col + 1] = ch]
      paired ==
        IF ch # CONTINUATION_CELL /\ cellDisplayWidth(ch) = 2 /\ col + 1 < w0
        THEN LET grown == IF Len(placed) <= col + 1
                          THEN placed \o Repeat(SPACE, col + 2 - Len(placed))
                          ELSE placed
                 freed == IF CellAt(grown, col + 1) = CONTINUATION_CELL
                          THEN BlankOwner(grown, col + 1)
                          ELSE BlankRun(grown, col + 2)
             IN BlankRun([freed EXCEPT ![col + 2] = CONTINUATION_CELL], col + 2)
        ELSE placed
  IN SubSeq(paired, 1, Min(w0, Len(paired)))

\* The lines array after setCharInLines(lines, row, col, ch, width).
setCharInLines(rows, row, col, ch, w0) ==
  IF row < 0 \/ row >= Len(rows) THEN rows
  ELSE IF col < 0 \/ col >= w0 THEN rows
  ELSE [rows EXCEPT ![row + 1] = setCharInRow(rows[row + 1], col, ch, w0)]

RECURSIVE getCellFrom(_, _, _, _)
getCellFrom(cells, i, col, index) ==
  IF i > Len(cells) THEN SPACE
  ELSE LET ch == cells[i] IN
    IF ch = <<>> THEN getCellFrom(cells, i + 1, col, index)
    ELSE IF ch = CONTINUATION_CELL THEN
      IF col = index THEN CONTINUATION_CELL ELSE getCellFrom(cells, i + 1, col + 1, index)
    ELSE IF cellDisplayWidth(ch) = 2 THEN
      IF col = index THEN ch
      ELSE IF col + 1 = index THEN CONTINUATION_CELL
      ELSE getCellFrom(cells, SkipContinuation(cells, i + 1), col + 2, index)
    ELSE IF col = index THEN ch
    ELSE getCellFrom(cells, i + 1, col + 1, index)

getCellAt(text, index) ==
  IF ~(index >= 0) THEN SPACE ELSE getCellFrom(toCells(text), 1, 0, index)

RECURSIVE toInternalFrom(_, _)
toInternalFrom(cells, i) ==
  IF i > Len(cells) THEN <<>>
  ELSE LET ch == cells[i]
           rest == toInternalFrom(cells, i + 1)
       IN IF ch = CR THEN rest
          ELSE IF ch = LF THEN <<LF>> \o rest
          ELSE IF ch = CONTINUATION_CELL THEN <<CONTINUATION_CELL>> \o rest
          ELSE IF cellDisplayWidth(ch) = 2 THEN <<ch, CONTINUATION_CELL>> \o rest
          ELSE <<ch>> \o rest

toInternalText(text) == toInternalFrom(toCells(ReplaceCRLF(text)), 1)

\* ------------------------------------------- composition (cells.ts 280-388)
\* while (start >= 0 && row[start] === CONTINUATION_CELL) start -= 1
RECURSIVE HeadBefore(_, _)
HeadBefore(row, start) ==
  IF start >= 0 /\ row[start + 1] = CONTINUATION_CELL
  THEN HeadBefore(row, start - 1) ELSE start

\* setCharInGrid that writes the cell and its continuation without blanking
\* the glyphs it cuts
setCharInGrid_NoBlank(row, col, ch, w0) ==
  IF col < 0 \/ col >= w0 THEN row
  ELSE IF cellDisplayWidth(ch) = 2 /\ col + 1 < w0
       THEN [row EXCEPT ![col + 1] = ch, ![col + 2] = CONTINUATION_CELL]
       ELSE [row EXCEPT ![col + 1] = ch]

\* row is a grid row: an array of exactly width cells
setCharInGrid(row, col, ch, w0) ==
  IF col < 0 \/ col >= w0 THEN row
  ELSE
    LET cleared ==
          IF row[col + 1] = CONTINUATION_CELL
          THEN LET start == HeadBefore(row, col - 1)
               IN IF start >= 0 THEN [row EXCEPT ![start + 1] = SPACE] ELSE row
          ELSE IF /\ cellDisplayWidth(row[col + 1]) = 2
                  /\ col + 1 < w0
                  /\ row[col + 2] = CONTINUATION_CELL
               THEN [row EXCEPT ![col + 2] = SPACE]
               ELSE row
        placed == [cleared EXCEPT ![col + 1] = ch]
    IN IF cellDisplayWidth(ch) = 2
       THEN IF col + 1 < w0
            THEN LET nextCh == placed[col + 2]
                     freed == IF /\ nextCh # CONTINUATION_CELL
                                 /\ cellDisplayWidth(nextCh) = 2
                                 /\ col + 2 < w0
                                 /\ placed[col + 3] = CONTINUATION_CELL
                              THEN [placed EXCEPT ![col + 3] = SPACE]
                              ELSE placed
                 IN [freed EXCEPT ![col + 2] = CONTINUATION_CELL]
            ELSE [placed EXCEPT ![col + 1] = SPACE]
       ELSE placed

\* the while loop of compositeBuffers over the cells of one source line
RECURSIVE paintLine(_, _, _, _, _)
\* the loop without the step over a wide cell's continuation
paintLine_NoTail(row, cells, i, col, w0) ==
  IF ~(i < Len(cells)) \/ col >= w0 THEN row
  ELSE LET ch == CellAt(cells, i) IN
    IF ch = TRANSPARENT_CELL \/ ch = SPACE THEN paintLine(row, cells, i + 1, col + 1, w0)
    ELSE IF cellDisplayWidth(ch) = 2
    THEN paintLine(setCharInGrid(row, col, ch, w0), cells, i + 1, col + 2, w0)
    ELSE paintLine(setCharInGrid(row, col, ch, w0), cells, i + 1, col + 1, w0)

paintLine(row, cells, i, col, w0) ==
  IF ~(i < Len(cells)) \/ col >= w0 THEN row
  ELSE LET ch == CellAt(cells, i) IN
    IF ch = TRANSPARENT_CELL \/ ch = SPACE THEN paintLine(row, cells, i + 1, col + 1, w0)
    ELSE IF cellDisplayWidth(ch) = 2
    THEN paintLine(setCharInGrid(row, col, ch, w0), cells,
                   IF i + 1 < Len(cells) /\ CellAt(cells, i + 1) = CONTINUATION_CELL
                   THEN i + 2 ELSE i + 1,
                   col + 2, w0)
    ELSE paintLine(setCharInGrid(row, col, ch, w0), cells, i + 1, col + 1, w0)

\* the grid after the layers ls[k..] were painted over it
RECURSIVE paintLayers(_, _, _, _, _)
\* the loop over the layers without the visibility test
paintLayers_AllVisible(grid, ls, k, w0, h0) ==
  IF k > Len(ls) THEN grid
  ELSE paintLayers([r \in 1..h0 |->
                     IF r - 1 >= ls[k].buffer.height THEN grid[r]
                     ELSE paintLine(grid[r], toCells(LineOr(ls[k].buffer.lines.rows, r - 1)),
                                    0, 0, w0)],
                   ls, k + 1, w0, h0)

paintLayers(grid, ls, k, w0, h0) ==
  IF k > Len(ls) THEN grid
  ELSE LET layer == ls[k]
           painted ==
             IF ~layer.visible THEN grid
             ELSE [r \in 1..h0 |->
                    IF r - 1 >= layer.buffer.height THEN grid[r]
                    ELSE paintLine(grid[r], toCells(LineOr(layer.buffer.lines.rows, r - 1)),
                                   0, 0, w0)]
       IN paintLayers(painted, ls, k + 1, w0, h0)

\* The returned buffer's lines array is a new one, of identity ref.
compositeBuffers(ls, w0, h0, ref) ==
  [width |-> w0, height |-> h0,
   lines |-> NewLines(ref, paintLayers([r \in 1..h0 |-> Repeat(SPACE, w0)], ls, 1, w0, h0))]

\* out.join(sep)
RECURSIVE Join(_, _)
Join(parts, sep) ==
  IF parts = <<>> THEN <<>>
  ELSE IF Len(parts) = 1 THEN parts[1]
  ELSE parts[1] \o sep \o Join(Tail(parts), sep)

bufferToText(buffer, padRight) ==
  Join([i \in 1..buffer.height |->
          LET internalLine == LineOr(buffer.lines.rows, i - 1)
          IN toDisplayText(IF padRight THEN padCells(internalLine, buffer.width)
                           ELSE internalLine)],
       <<LF>>)

\* ------------------------------------------------ textIo (textIo.test.ts 35-)
\* A file's contents are code points, not graphemes.
RECURSIVE CodePoints(_)
CodePoints(text) == IF text = <<>> THEN <<>> ELSE Head(text) \o CodePoints(Tail(text))

\* text.replace(/\r\n/g, '\n').replace(/\r/g, '\n')
RECURSIVE toLf(_)
toLf(cps) ==
  IF cps = <<>> THEN <<>>
  ELSE IF Head(cps) = 13
       THEN <<10>> \o toLf(IF Len(cps) >= 2 /\ cps[2] = 10 THEN Tail(Tail(cps)) ELSE Tail(cps))
       ELSE <<Head(cps)>> \o toLf(Tail(cps))

SelectSeqNot(cps, x) == SelectSeq(cps, LAMBDA c : c # x)

RECURSIVE LfToCrLf(_)
LfToCrLf(cps) ==
  IF cps = <<>> THEN <<>>
  ELSE (IF Head(cps) = 10 THEN <<13, 10>> ELSE <<Head(cps)>>) \o LfToCrLf(Tail(cps))

\* text is the string's code points
normalizeForSave(cps, newline) ==
  LET noNull == SelectSeqNot(cps, 0)
      lf == toLf(noNull)
  IN IF newline = "crlf" THEN LfToCrLf(lf) ELSE lf

\* ------------------------------------------------------- figureInsert.ts
\* base.lines[r] ?? '' for a 0-based row r
RowOr(rows, r) == IF r >= 0 /\ r < Len(rows) THEN rows[r + 1] ELSE <<>>

\* Returns the new buffer's width, height and rows and the cursor after it.
\* (_style is not used by the code; opts is never passed, so both maxima
\* are 2000.)
insertBlankFigure(base, at, figSize) ==
  LET maxHeight == 2000
      maxWidth == 2000
      figWidth == clampInt(figSize.width, 1, maxWidth)
      figHeight == clampInt(figSize.height, 1, Max(1, maxHeight - base.height))
      insertRow == clampInt(at.row, 0, base.height)
      insertCol == clampInt(at.col, 0, base.width)
      nextHeight == clampInt(base.height + figHeight, 1, maxHeight)
      nextWidth == clampInt(Max(base.width, insertCol + figWidth), 1, maxWidth)
      \* lines[insertRow + r] = padding may write one row past nextHeight
      count == IF insertCol > 0 THEN Max(nextHeight, insertRow + figHeight) ELSE nextHeight
      rowAt(r) ==
        IF insertCol > 0 /\ r >= insertRow /\ r < insertRow + figHeight
          THEN Repeat(SPACE, insertCol)
        ELSE IF r < insertRow /\ r < base.height THEN RowOr(base.lines.rows, r)
        ELSE IF r >= insertRow + figHeight /\ r - figHeight < base.height /\ r < nextHeight
          THEN RowOr(base.lines.rows, r - figHeight)
        ELSE <<>>
  IN [width |-> nextWidth, height |-> nextHeight,
      rows |-> [i \in 1..count |-> rowAt(i - 1)],
      cursorAfter |-> CellCursor(clampInt(insertRow + figHeight, 0, nextHeight - 1), insertCol)]


\* ------------------------------------------------------------- inputs
\* Values of Date.now() seen by addLayer; two calls may see the same one.
Times == {1001, 1002}
\* Sizes asked of newBuffer (template or custom size dialog).
SmallSize == <<3, 2>>
HugeSize == <<2000, 501>>
NewSizes == {SmallSize, HugeSize}
\* Texts given to setBufferFromText / loadBufferFromTextAutoSize.
SetTexts == {<<LatinA, Hangul, LF, LatinB>>}
LoadTexts == {<<LatinA, LatinB, CRLF, Hangul>>}
Names == {[text |-> "x", n |-> 0]}
\* The figure dialog's size (its initial 24 x 8).
FigureSizes == {[width |-> 24, height |-> 8]}
Cursors == {CellCursor(1, 2)}

\* A buffer of the session's size with a mark in its first row, in a new
\* lines array (what an editor command builds from cloneLines).
withMark(w, h, mark, ref) ==
  [width |-> w, height |-> h,
   lines |-> NewLines(ref, [i \in 1..h |-> IF i = 1 THEN mark ELSE <<>>])]

\* The buffers a caller hands to commitBuffer in state s: an edited copy, or
\* the buffer object that is already the active one (committed again).
CommitInputs(s) ==
  {withMark(s.width, s.height, <<LatinA>>, NextFree(UsedRefs(s), 1)), getBuffer(s)}

LayerIds(ls) == {ls[i].id : i \in 1..Len(ls)}

\* ------------------------------------------------------------ the machine
\* Nothing written yet; no helper invoked; nothing returned.
NoFile == [written |-> FALSE, contents |-> <<>>, padRight |-> TRUE, newline |-> "lf"]
NoCall == [fn |-> "none"]
NoRet == [fn |-> "none"]

\* null where the App holds a cell, a block, a rectangle, a buffer or a gesture
NullCell == [null |-> TRUE, row |-> 0, col |-> 0]
NullClip == [null |-> TRUE, width |-> 0, height |-> 0, lines |-> <<>>,
             origin |-> [row |-> 0, col |-> 0]]
NullRect == [null |-> TRUE, top |-> 0, left |-> 0, bottom |-> 0, right |-> 0]
NullBuffer == [null |-> TRUE, width |-> 0, height |-> 0, rows |-> <<>>]
NullGesture == [null |-> TRUE, tool |-> "rect", start |-> [row |-> 0, col |-> 0],
                last |-> [row |-> 0, col |-> 0], current |-> [row |-> 0, col |-> 0],
                base |-> [width |-> 0, height |-> 0, lines |-> NewLines(0, <<>>)],
                drawChar |-> <<35>>, points |-> <<>>]
NullSelectGesture == [null |-> TRUE, start |-> [row |-> 0, col |-> 0],
                      current |-> [row |-> 0, col |-> 0]]
NullAnchor == [null |-> TRUE, start |-> [row |-> 0, col |-> 0],
               end |-> [row |-> 0, col |-> 0]]

\* The App component as first rendered: its useState initial values and its
\* refs; awaiting holds the cuts that wait for the system clipboard.
InitialUi ==
  [tool |-> "text", freeChar |-> <<35>>, drawStyle |-> "ascii",
   draftBuffer |-> NullBuffer, isDrawing |-> FALSE, isSelecting |-> FALSE,
   selectionRect |-> NullRect,
   clipboard |-> [current |-> NullClip, history |-> <<>>],
   gestureRef |-> NullGesture, selectGestureRef |-> NullSelectGesture,
   selectionAnchorRef |-> NullAnchor, awaiting |-> <<>>,
   findQuery |-> <<>>, replaceQuery |-> <<>>, findMatch |-> NullCursor,
   file |-> [path |-> "", origin |-> "none", lastError |-> "", exportNewline |-> "lf",
             recent |-> <<>>, pinned |-> <<>>]]

St == StoreState(width, height, layers, activeLayerId, cursor, past, future)

Do(op, s) ==
  /\ steps < MaxSteps
  /\ width' = s.width
  /\ height' = s.height
  /\ layers' = s.layers
  /\ activeLayerId' = s.activeLayerId
  /\ cursor' = s.cursor
  /\ past' = s.past
  /\ future' = s.future
  /\ lastOp' = op
  /\ steps' = steps + 1
  /\ UNCHANGED <<saved, call, ret, ui>>

SetCursor == \E c \in Cursors : Do("setCursor", setCursor(St, c))

NewBuffer == \E sz \in NewSizes : Do("newBuffer", newBuffer(St, sz[1], sz[2]))

SetBufferFromText == \E t \in SetTexts : Do("setBufferFromText", setBufferFromText(St, t))

LoadBufferFromTextAutoSize ==
  \E t \in LoadTexts : Do("loadBufferFromTextAutoSize", loadBufferFromTextAutoSize(St, t))

CommitBuffer == \E b \in CommitInputs(St) : Do("commitBuffer", commitBuffer(St, b))

AddLayer ==
  /\ Len(layers) < MaxLayers
  /\ \E now \in Times : Do("addLayer", addLayer(St, now))

\* The layer panel passes the id of one of the listed layers.
RemoveLayer == \E id \in LayerIds(layers) : Do("removeLayer", removeLayer(St, id))

SelectLayer == \E id \in LayerIds(layers) : Do("selectLayer", selectLayer(St, id))

ToggleLayerVisibility ==
  \E id \in LayerIds(layers) : Do("toggleLayerVisibility", toggleLayerVisibility(St, id))

ToggleLayerLock ==
  \E id \in LayerIds(layers) : Do("toggleLayerLock", toggleLayerLock(St, id))

SetLayerName ==
  \E id \in LayerIds(layers) : \E name \in Names :
    Do("setLayerName", setLayerName(St, id, name))

Undo == Do("undo", undo(St))

Redo == Do("redo", redo(St))

\* App.tsx applyInsertFigure: insert at the cursor (or the origin), commit
\* the grown buffer, then put the cursor after the figure.
applyInsertFigure(s, figSize) ==
  LET currentBuffer == getBuffer(s)
      at == IF s.cursor.null THEN CellCursor(0, 0) ELSE s.cursor
      next == insertBlankFigure(currentBuffer, at, figSize)
      committed == commitBuffer(s, [width |-> next.width, height |-> next.height,
                      lines |-> NewLines(NextFree(UsedRefs(s), 1), next.rows)])
  IN setCursor(committed, CellCursor(next.cursorAfter.row, next.cursorAfter.col))

ApplyInsertFigure ==
  \E fs \in FigureSizes : Do("applyInsertFigure", applyInsertFigure(St, fs))

Next ==
  \/ SetCursor
  \/ NewBuffer
  \/ SetBufferFromText
  \/ LoadBufferFromTextAutoSize
  \/ CommitBuffer
  \/ AddLayer
  \/ RemoveLayer
  \/ SelectLayer
  \/ ToggleLayerVisibility
  \/ ToggleLayerLock
  \/ SetLayerName
  \/ Undo
  \/ Redo
  \/ ApplyInsertFigure

StoreStart(s) ==
  /\ width = s.width
  /\ height = s.height
  /\ layers = s.layers
  /\ activeLayerId = s.activeLayerId
  /\ cursor = s.cursor
  /\ past = s.past
  /\ future = s.future
  /\ lastOp = "init"
  /\ steps = 0

Start(s) ==
  /\ StoreStart(s)
  /\ saved = NoFile
  /\ call = NoCall
  /\ ret = NoRet
  /\ ui = InitialUi

Init == Start(InitialState)

Spec == Init /\ [][Next]_vars

\* A session whose history is already long: the store after n commits of a
\* marked buffer, each one a state the store reaches from InitialState.
RECURSIVE AfterCommits(_, _)
AfterCommits(s, n) ==
  IF n = 0 THEN s
  ELSE LET t == AfterCommits(s, n - 1)
       IN commitBuffer(t, withMark(t.width, t.height, <<LatinB>>, NextFree(UsedRefs(t), 1)))

\* A huge session with a full history (HugeFull), and a default session
\* whose history is longer than a huge session may keep (DefaultLong).  They
\* are built in stages of a few commits each.
HugeLimit == historyLimitForSize(HugeSize[1], HugeSize[2])
Huge0 == newBuffer(InitialState, HugeSize[1], HugeSize[2])
Huge1 == AfterCommits(Huge0, 5)
Huge2 == AfterCommits(Huge1, 5)
Huge3 == AfterCommits(Huge2, 5)
HugeFull == AfterCommits(Huge3, HugeLimit - 16)
Default1 == AfterCommits(InitialState, 5)
Default2 == AfterCommits(Default1, 5)
Default3 == AfterCommits(Default2, 5)
Default4 == AfterCommits(Default3, 5)
DefaultLong == AfterCommits(Default4, HugeLimit - 18)

InitLong == Start(HugeFull) \/ Start(DefaultLong)

SpecLong == InitLong /\ [][Next]_vars

\* ------------------------------------------------------------ App: save
\* The App's settings at the time of a save.
ExportNewlines == {"lf", "crlf"}

\* The contents saveBufferText hands to write_text_file: buffer is the
\* App's selectActiveBuffer.
saveContents(s, padRight, newline) ==
  normalizeForSave(CodePoints(bufferToText(getBuffer(s), padRight)), newline)

\* The text the canvas shows (no draft in progress).
renderText(s) ==
  LET buffer == getBuffer(s)
      composite == compositeBuffers(s.layers, buffer.width, buffer.height, 0)
  IN bufferToText(composite, TRUE)

\* A save that reaches write_text_file (a cancelled dialog writes nothing).
SaveBufferText ==
  /\ steps < MaxSteps
  /\ \E padRight \in BOOLEAN : \E newline \in ExportNewlines :
       saved' = [written |-> TRUE, contents |-> saveContents(St, padRight, newline),
                 padRight |-> padRight, newline |-> newline]
  /\ lastOp' = "saveBufferText"
  /\ steps' = steps + 1
  /\ UNCHANGED <<width, height, layers, activeLayerId, cursor, past, future, call, ret, ui>>

\* An editing session on a small canvas, with saves.
SmallSession == newBuffer(InitialState, SmallSize[1], SmallSize[2])

InitApp == Start(SmallSession)

NextApp ==
  \/ SetBufferFromText
  \/ CommitBuffer
  \/ AddLayer
  \/ SelectLayer
  \/ ToggleLayerVisibility
  \/ SaveBufferText

SpecApp == InitApp /\ [][NextApp]_vars

\* ------------------------------------------------- cells.ts called directly
\* The widest row given to a helper.
MaxWidth == 4
\* The longest text given to a text conversion.
MaxTextLen == 3

\* What a cell of a row may hold.
CellAlphabet == {SPACE, LatinA, Hangul, CONTINUATION_CELL}
\* What a caller writes into a cell.
Graphemes == {SPACE, LatinA, Hangul}

RowsUpTo(n) == UNION {[1..k -> CellAlphabet] : k \in 0..n}

\* The wide-glyph pairing of a row: every continuation cell directly follows
\* a wide content cell, and every wide content cell is followed by its
\* continuation.
WellFormedRow(cells) ==
  \A i \in 1..Len(cells) :
    /\ cells[i] = CONTINUATION_CELL => (i > 1 /\ cellDisplayWidth(cells[i - 1]) = 2)
    /\ cellDisplayWidth(cells[i]) = 2 => (i < Len(cells) /\ cells[i + 1] = CONTINUATION_CELL)

\* The rows an editor command finds in a buffer of width w.
WellFormedRows(w) == {r \in RowsUpTo(w) : WellFormedRow(r)}

\* setCharInLines(lines, row, col, ch, width) on a one-row lines array; row 1
\* and the columns -1 and width are out of range.
SetCharCalls ==
  UNION {{[fn |-> "setCharInLines", lines |-> <<r>>, row |-> row, col |-> col,
           ch |-> ch, width |-> w]
            : r \in WellFormedRows(w), row \in 0..1, col \in (-1)..w, ch \in Graphemes}
         : w \in 1..MaxWidth}

\* The store is as constructed while a helper is called on its own.
StartCall(c) ==
  /\ StoreStart(InitialState)
  /\ saved = NoFile
  /\ call = c
  /\ ret = NoRet
  /\ ui = InitialUi

\* The helper that was called returns r.
Return(r) ==
  /\ ret' = r
  /\ UNCHANGED <<width, height, layers, activeLayerId, cursor, past, future,
                 lastOp, steps, saved, call, ui>>

ApplySetCharInLines ==
  /\ call.fn = "setCharInLines"
  /\ ret.fn = "none"
  /\ Return([fn |-> "setCharInLines",
             lines |-> setCharInLines(call.lines, call.row, call.col, call.ch, call.width)])

\* CR LF is one grapheme: no text has a CR cell directly before an LF cell.
IsSegmented(t) == \A i \in 1..(Len(t) - 1) : ~(t[i] = CR /\ t[i + 1] = LF)

TextsOver(alphabet) ==
  {t \in UNION {[1..k -> alphabet] : k \in 0..MaxTextLen} : IsSegmented(t)}

\* Typed or pasted text: narrow and wide graphemes, newlines, carriage returns.
ExternalTexts == TextsOver({LatinA, Hangul, LF, CR, CRLF})

\* One line of a file or of an internal row.
LineTexts == TextsOver({LatinA, Hangul, CONTINUATION_CELL, CR})

InternalTextCalls == {[fn |-> "toInternalText", text |-> t] : t \in ExternalTexts}

SliceCalls ==
  {[fn |-> "sliceCells", text |-> t, width |-> w] : t \in LineTexts, w \in (-1)..MaxWidth}

ApplyToInternalText ==
  /\ call.fn = "toInternalText"
  /\ ret.fn = "none"
  /\ Return([fn |-> "toInternalText", text |-> toInternalText(call.text)])

\* the internal text is shown or exported
ApplyToDisplayText ==
  /\ ret.fn = "toInternalText"
  /\ Return([fn |-> "toDisplayText", text |-> toDisplayText(ret.text)])

ApplySliceCells ==
  /\ call.fn = "sliceCells"
  /\ ret.fn = "none"
  /\ Return([fn |-> "sliceCells", text |-> sliceCells(call.text, call.width)])

InitCells == \E c \in SetCharCalls \cup InternalTextCalls \cup SliceCalls : StartCall(c)

NextCells ==
  \/ ApplySetCharInLines
  \/ ApplyToInternalText
  \/ ApplyToDisplayText
  \/ ApplySliceCells

SpecCells == InitCells /\ [][NextCells]_vars

\* ------------------------------------------- App: block copy and paste
getRawCellAt(rows, row, col) == getCellAt(LineOr(rows, row), col)

rectSize(rect) ==
  [width |-> rect.right - rect.left + 1, height |-> rect.bottom - rect.top + 1]

\* s += getRawCellAt(...) for c = from..right
RECURSIVE copyCells(_, _, _, _)
\* the loop copying what is displayed: a space for a continuation sentinel
copyCells_NoSentinel(rows, r, from, right) ==
  IF from > right THEN <<>>
  ELSE LET ch == getRawCellAt(rows, r, from)
       IN <<IF ch = CONTINUATION_CELL THEN SPACE ELSE ch>>
            \o copyCells(rows, r, from + 1, right)

copyCells(rows, r, from, right) ==
  IF from > right THEN <<>>
  ELSE <<getRawCellAt(rows, r, from)>> \o copyCells(rows, r, from + 1, right)

copyRectFromBuffer(base, rect, originCell) ==
  LET size == rectSize(rect) IN
    IF size.width <= 0 \/ size.height <= 0 THEN NullClip
    ELSE LET o == IF originCell.null THEN [row |-> rect.top, col |-> rect.left]
                  ELSE originCell
         IN [null |-> FALSE, width |-> size.width, height |-> size.height,
             lines |-> [i \in 1..size.height |->
                          copyCells(base.lines.rows, rect.top + i - 1, rect.left, rect.right)],
             origin |-> [row |-> clampInt(o.row - rect.top, 0, size.height - 1),
                         col |-> clampInt(o.col - rect.left, 0, size.width - 1)]]

\* the two loops of pasteRectIntoBuffer from the k-th cell of the block on,
\* in row-major order
RECURSIVE pasteCells(_, _, _, _, _)
pasteCells(rows, base, at, clip, k) ==
  IF k >= clip.height * clip.width THEN rows
  ELSE LET r == k \div clip.width
           c == k % clip.width
           row == at.row + r
           col == at.col + c
           rowCells == toCells(LineOr(clip.lines, r))
           ch == IF c < Len(rowCells) THEN rowCells[c + 1] ELSE SPACE
       IN IF row < 0 \/ row >= base.height \/ col < 0 \/ col >= base.width
          THEN pasteCells(rows, base, at, clip, k + 1)
          ELSE pasteCells(setCharInLines(rows, row, col, ch, base.width),
                          base, at, clip, k + 1)

\* pasteRectIntoBuffer that moves the block into the buffer, not clipping it
pasteRectIntoBuffer_Shifted(base, at, clip, ref) ==
  IF clip.null THEN base
  ELSE [base EXCEPT !.lines =
          NewLines(ref, pasteCells(cloneLines(base.lines.rows, base.height), base,
                                   [row |-> clampInt(at.row, 0, base.height - 1),
                                    col |-> clampInt(at.col, 0, base.width - 1)],
                                   clip, 0))]

\* The new buffer's lines array is the clone, of identity ref.
pasteRectIntoBuffer(base, at, clip, ref) ==
  IF clip.null THEN base
  ELSE [base EXCEPT !.lines =
          NewLines(ref, pasteCells(cloneLines(base.lines.rows, base.height), base, at, clip, 0))]

\* The widest buffer copied from and pasted into.
MaxClipWidth == 3

\* a one-row buffer
RowBuffer(ref, w, row) == [width |-> w, height |-> 1, lines |-> NewLines(ref, <<row>>)]

\* A selection of one buffer (a rectangle whose right edge is left of its
\* left edge is a degenerate one) and the cell of another where it is pasted.
CopyCall(w, src, dst, left, right, col) ==
  [fn |-> "copyRectFromBuffer",
   base |-> RowBuffer(1, w, src),
   rect |-> [top |-> 0, left |-> left, bottom |-> 0, right |-> right],
   target |-> RowBuffer(2, w, dst),
   at |-> [row |-> 0, col |-> col]]

ApplyCopyRectFromBuffer ==
  /\ call.fn = "copyRectFromBuffer"
  /\ ret.fn = "none"
  /\ Return([fn |-> "copyRectFromBuffer",
             clip |-> copyRectFromBuffer(call.base, call.rect, NullCell)])

ApplyPasteRectIntoBuffer ==
  /\ ret.fn = "copyRectFromBuffer"
  /\ Return([fn |-> "pasteRectIntoBuffer",
             buffer |-> pasteRectIntoBuffer(call.target, call.at, ret.clip, 3)])

InitClipboard ==
  \E w \in 1..MaxClipWidth :
    \E src \in WellFormedRows(w), dst \in WellFormedRows(w) :
      \E left \in 0..(w - 1), right \in 0..(w - 1), col \in 0..(w - 1) :
        StartCall(CopyCall(w, src, dst, left, right, col))

NextClipboard == ApplyCopyRectFromBuffer \/ ApplyPasteRectIntoBuffer

SpecClipboard == InitClipboard /\ [][NextClipboard]_vars

\* ------------------------------------------- compositeBuffers called directly
\* The widest layer composited.
MaxCompositeWidth == 3

\* What a cell of a layer's row may hold.
LayerAlphabet == {SPACE, TRANSPARENT_CELL, LatinA, Hangul, CONTINUATION_CELL}

\* The well-formed rows of at most w cells a layer may hold (a row may stop
\* before the last column).
LayerRows(w) ==
  {r \in UNION {[1..k -> LayerAlphabet] : k \in 0..w} : WellFormedRow(r)}

\* Rows put in the place of a hidden layer's row.
OtherRows == {<<LatinA, LatinA>>, <<SPACE, Hangul, CONTINUATION_CELL>>}

\* Rows of a third layer, above the other two.
OverRows(w) ==
  {r \in {<<SPACE, LatinA>>, <<SPACE, Hangul, CONTINUATION_CELL>>} : Len(r) <= w}

\* a one-row layer
RowLayer(id, w, row, visible, locked) ==
  [id |-> id, name |-> LayerName(id), visible |-> visible, locked |-> locked,
   buffer |-> RowBuffer(id, w, row)]

\* compositeBuffers(layers, width, height); other is the row the second
\* layer list has wherever a layer is hidden.
CompositeCall(w, ls, other) ==
  [fn |-> "compositeBuffers", layers |-> ls, width |-> w, height |-> 1, other |-> other]

ApplyCompositeBuffers ==
  /\ call.fn = "compositeBuffers"
  /\ ret.fn = "none"
  /\ Return([fn |-> "compositeBuffers",
             buffer |-> compositeBuffers(call.layers, call.width, call.height, 3)])

\* the result is composited again, as the only layer
ApplyCompositeAgain ==
  /\ ret.fn = "compositeBuffers"
  /\ Return([fn |-> "compositeAgain",
             first |-> ret.buffer,
             buffer |-> compositeBuffers(<<createLayer(1, BackgroundName, ret.buffer)>>,
                                         call.width, call.height, 4)])

\* (one second list is enough when no layer of ls is hidden)
StartComposite(w, ls, other) ==
  /\ (\A k \in 1..Len(ls) : ls[k].visible) => other = <<LatinA, LatinA>>
  /\ StartCall(CompositeCall(w, ls, other))

\* One layer, a background and a layer above it, or three layers.
InitComposite ==
  \E w \in 1..MaxCompositeWidth :
    \E bottom \in LayerRows(w), showBottom \in BOOLEAN, other \in OtherRows :
      \/ StartComposite(w, <<RowLayer(1, w, bottom, showBottom, FALSE)>>, other)
      \/ \E top \in LayerRows(w), showTop \in BOOLEAN :
           \/ StartComposite(w, <<RowLayer(1, w, bottom, showBottom, FALSE),
                                  RowLayer(2, w, top, showTop, FALSE)>>, other)
           \/ \E over \in OverRows(w) :
                StartComposite(w, <<RowLayer(1, w, bottom, showBottom, FALSE),
                                    RowLayer(2, w, top, showTop, FALSE),
                                    RowLayer(3, w, over, TRUE, FALSE)>>, other)

NextComposite == ApplyCompositeBuffers \/ ApplyCompositeAgain

SpecComposite == InitComposite /\ [][NextComposite]_vars

\* ------------------------------------------------- App: drawing tools
DrawStyles == {"ascii", "unicode"}

styleChars(style) ==
  IF style = "unicode"
  THEN [h |-> <<9472>>, v |-> <<9474>>, tl |-> <<9484>>, tr |-> <<9488>>,
        bl |-> <<9492>>, br |-> <<9496>>]
  ELSE [h |-> <<45>>, v |-> <<124>>, tl |-> <<43>>, tr |-> <<43>>,
        bl |-> <<43>>, br |-> <<43>>]

\* One call setCharInLines(lines, row, col, ch, width) on the working copy.
Write(row, col, ch) == [row |-> row, col |-> col, ch |-> ch]

\* The calls of a drawing function, made in order on the array rows.
RECURSIVE writeCells(_, _, _)
writeCells(rows, writes, w0) ==
  IF writes = <<>> THEN rows
  ELSE writeCells(setCharInLines(rows, Head(writes).row, Head(writes).col,
                                 Head(writes).ch, w0),
                  Tail(writes), w0)

\* for (col = from; col <= to; col += 1) setCharInLines(lines, row, col, ch, width)
drawHorizontal(row, c1, c2, w0, ch) ==
  LET from == Max(0, Min(c1, c2))
      to == Min(w0 - 1, Max(c1, c2))
  IN [i \in 1..Max(0, to - from + 1) |-> Write(row, from + i - 1, ch)]

\* for (row = from; row <= to; row += 1) setCharInLines(lines, row, col, ch, width)
drawVertical(col, r1, r2, h0, ch) ==
  LET from == Max(0, Min(r1, r2))
      to == Min(h0 - 1, Max(r1, r2))
  IN [i \in 1..Max(0, to - from + 1) |-> Write(from + i - 1, col, ch)]

\* The calls of setCharInLines drawRect makes, in its order.
drawRectWrites(base, a, b, style) ==
  LET chars == styleChars(style)
      x1 == Min(a.col, b.col)
      x2 == Max(a.col, b.col)
      y1 == Min(a.row, b.row)
      y2 == Max(a.row, b.row)
      w0 == base.width
      h0 == base.height
  IN IF x1 = x2 /\ y1 = y2 THEN <<Write(y1, x1, chars.tl)>>
     ELSE IF y1 = y2 THEN
       drawHorizontal(y1, x1, x2, w0, chars.h)
         \o <<Write(y1, x1, chars.tl), Write(y1, x2, chars.tr)>>
     ELSE IF x1 = x2 THEN
       drawVertical(x1, y1, y2, h0, chars.v)
         \o <<Write(y1, x1, chars.tl), Write(y2, x1, chars.bl)>>
     ELSE
       drawHorizontal(y1, x1 + 1, x2 - 1, w0, chars.h)
         \o drawHorizontal(y2, x1 + 1, x2 - 1, w0, chars.h)
         \o drawVertical(x1, y1 + 1, y2 - 1, h0, chars.v)
         \o drawVertical(x2, y1 + 1, y2 - 1, h0, chars.v)
         \o <<Write(y1, x1, chars.tl), Write(y1, x2, chars.tr),
              Write(y2, x1, chars.bl), Write(y2, x2, chars.br)>>

\* the working copy of drawRect when it returns
drawRectLines(base, a, b, style) ==
  writeCells(cloneLines(base.lines.rows, base.height),
             drawRectWrites(base, a, b, style), base.width)

\* drawRect that draws into the caller's lines array
drawRect_InPlace(base, a, b, style, ref) ==
  [base EXCEPT !.lines = NewLines(base.lines.ref, drawRectLines(base, a, b, style))]

\* The working copy, the array cloneLines made, has identity ref.
drawRect(base, a, b, style, ref) ==
  [base EXCEPT !.lines = NewLines(ref, drawRectLines(base, a, b, style))]

\* What the array object lines holds after a call that returned the buffer
\* result: what was written through its identity, else what it held.
ArrayAfter(lines, result) ==
  IF result.lines.ref = lines.ref THEN result.lines ELSE lines

\* The largest width and height of a buffer drawn on.
MaxDrawSize == 3

\* Rows of a buffer drawn on: empty, all narrow, or with one wide glyph.
DrawRows(w) ==
  {<<>>, Repeat(LatinA, w)}
  \cup {[i \in 1..w |-> IF i = k THEN Hangul
                        ELSE IF i = k + 1 THEN CONTINUATION_CELL ELSE LatinA]
          : k \in 1..(w - 1)}

CellsOf(w, h) == {[row |-> r, col |-> c] : r \in 0..(h - 1), c \in 0..(w - 1)}

DrawCall(w, h, rows, a, b, style) ==
  [fn |-> "drawRect",
   base |-> [width |-> w, height |-> h, lines |-> NewLines(1, rows)],
   a |-> a, b |-> b, style |-> style]

ApplyDrawRect ==
  /\ call.fn = "drawRect"
  /\ ret.fn = "none"
  /\ LET result == drawRect(call.base, call.a, call.b, call.style, 2)
     IN Return([fn |-> "drawRect", buffer |-> result,
                base |-> [call.base EXCEPT !.lines = ArrayAfter(@, result)]])

\* Buffers of each size up to MaxDrawSize whose odd rows hold one row and
\* whose even rows another, any two of their cells, either style.
InitDraw ==
  \E w \in 1..MaxDrawSize, h \in 1..MaxDrawSize :
    \E odd \in DrawRows(w), even \in DrawRows(w) :
      \E a \in CellsOf(w, h), b \in CellsOf(w, h), style \in DrawStyles :
        StartCall(DrawCall(w, h, [i \in 1..h |-> IF i % 2 = 1 THEN odd ELSE even],
                           a, b, style))

NextDraw == ApplyDrawRect

SpecDraw == InitDraw /\ [][NextDraw]_vars

\* ------------------------------------------------ App: freeform stroke
Abs(x) == IF x < 0 THEN -x ELSE x

\* What the point list ends with when the loop was cut.
NoCell == [row |-> -1, col |-> -1]

\* The for (;;) loop of bresenham from (x0, y0) with error term err.  fuel
\* counts the iterations left before the loop is cut: a run that needs more
\* than the dx + dy + 1 it starts with ends in NoCell.
RECURSIVE bresenhamLoop(_, _, _, _, _, _, _, _, _, _)
bresenhamLoop(x0, y0, x1, y1, dx, dy, sx, sy, err, fuel) ==
  LET here == <<[row |-> y0, col |-> x0]>> IN
    IF x0 = x1 /\ y0 = y1 THEN here
    ELSE IF fuel = 0 THEN here \o <<NoCell>>
    ELSE LET e2 == 2 * err
             stepX == e2 > -dy
             errX == IF stepX THEN err - dy ELSE err
             nextX == IF stepX THEN x0 + sx ELSE x0
             stepY == e2 < dx
             errY == IF stepY THEN errX + dx ELSE errX
             nextY == IF stepY THEN y0 + sy ELSE y0
         IN here \o bresenhamLoop(nextX, nextY, x1, y1, dx, dy, sx, sy, errY, fuel - 1)

\* bresenham that returns its two end points only
bresenham_EndPoints(a, b) == IF a = b THEN <<a>> ELSE <<a, b>>

bresenham(a, b) ==
  LET dx == Abs(b.col - a.col)
      dy == Abs(b.row - a.row)
      sx == IF a.col < b.col THEN 1 ELSE -1
      sy == IF a.row < b.row THEN 1 ELSE -1
  IN bresenhamLoop(a.col, a.row, b.col, b.row, dx, dy, sx, sy, dx - dy, dx + dy + 1)

\* The width and height of the canvas a stroke is drawn on.
MaxGestureSize == 4
\* The pointer-move samples of one gesture.
MaxMoves == 2

\* beginGesture with the free tool: gestureRef.current = g
BeginGesture ==
  /\ call.fn = "beginGesture"
  /\ ret.fn = "none"
  /\ Return([fn |-> "gesture", points |-> <<call.start>>, last |-> call.start,
             from |-> call.start, segment |-> <<call.start>>, moves |-> 0])

\* moveGesture with the free tool: the pointer is sampled at cell
MoveGesture ==
  /\ ret.fn = "gesture"
  /\ ret.moves < MaxMoves
  /\ \E cell \in CellsOf(call.width, call.height) :
       LET pts == bresenham(ret.last, cell)
       IN Return([fn |-> "gesture", points |-> ret.points \o Tail(pts), last |-> cell,
                  from |-> ret.last, segment |-> pts, moves |-> ret.moves + 1])

InitGesture ==
  \E start \in CellsOf(MaxGestureSize, MaxGestureSize) :
    StartCall([fn |-> "beginGesture", start |-> start,
               width |-> MaxGestureSize, height |-> MaxGestureSize])

NextGesture == BeginGesture \/ MoveGesture

SpecGesture == InitGesture /\ [][NextGesture]_vars

\* --------------------------------------- pasteRectIntoBuffer past the edges
\* The widest buffer pasted into.
MaxPasteWidth == 3

\* A block copied from the rows of a two-row buffer (none when the rectangle
\* is degenerate) and a cell, inside a two-row buffer or one step outside it,
\* where the block is pasted.
PasteCall(w, src, dst, rect, at) ==
  [fn |-> "copyRectFromBuffer",
   base |-> [width |-> w, height |-> 2, lines |-> NewLines(1, <<src, Repeat(LatinB, w)>>)],
   rect |-> rect,
   target |-> [width |-> w, height |-> 2, lines |-> NewLines(2, <<dst, Repeat(LatinA, w)>>)],
   at |-> at]

InitPaste ==
  \E w \in 1..MaxPasteWidth :
    \E src \in WellFormedRows(w), dst \in DrawRows(w) :
      \E left \in 0..(w - 1), right \in 0..(w - 1), bottom \in 0..1 :
        \E row \in (-1)..2, col \in (-1)..w :
          StartCall(PasteCall(w, src, dst,
                              [top |-> 0, left |-> left, bottom |-> bottom, right |-> right],
                              [row |-> row, col |-> col]))

NextPaste == ApplyCopyRectFromBuffer \/ ApplyPasteRectIntoBuffer

SpecPaste == InitPaste /\ [][NextPaste]_vars

\* ------------------------------------------------ App: box-aware text
getCharAt(rows, row, col) ==
  LET ch == getRawCellAt(rows, row, col)
  IN IF ch = CONTINUATION_CELL THEN SPACE ELSE ch

\* while (c > 0 && getCellAt(line, c) === CONTINUATION_CELL) c -= 1
RECURSIVE snapBack(_, _)
snapBack(line, c) ==
  IF c > 0 /\ getCellAt(line, c) = CONTINUATION_CELL THEN snapBack(line, c - 1) ELSE c

snapColToCellStart(line, col, w0) == snapBack(line, clampInt(col, 0, Max(0, w0 - 1)))

snapCursorToCellStartInBuffer(buffer, pos) ==
  LET row == clampInt(pos.row, 0, buffer.height - 1)
      col == clampInt(pos.col, 0, buffer.width - 1)
  IN [row |-> row, col |-> snapColToCellStart(LineOr(buffer.lines.rows, row), col, buffer.width)]

\* for (c = col + 1; c < width; c += 1) { if not a continuation: break;
\*   setCharInLines(lines, row, c, ' ', width) }
RECURSIVE clearFrom(_, _, _, _)
clearFrom(rows, row, c, w0) ==
  IF c < w0 /\ getCellAt(LineOr(rows, row), c) = CONTINUATION_CELL
  THEN clearFrom(setCharInLines(rows, row, c, SPACE, w0), row, c + 1, w0)
  ELSE rows

clearContinuationRight(rows, row, col, w0) == clearFrom(rows, row, col + 1, w0)

isWall(ch) == ch \in {<<124>>, <<9474>>, <<43>>, <<9484>>, <<9488>>, <<9492>>, <<9496>>}
isH(ch) == ch \in {<<45>>, <<9472>>}
isTopLeft(ch) == ch \in {<<43>>, <<9484>>}
isTopRight(ch) == ch \in {<<43>>, <<9488>>}
isBottomLeft(ch) == ch \in {<<43>>, <<9492>>}
isBottomRight(ch) == ch \in {<<43>>, <<9496>>}

\* findEnclosingBoxBounds returns null
NullBounds ==
  [null |-> TRUE, left |-> 0, right |-> 0, top |-> 0, bottom |-> 0,
   leftInner |-> 0, rightInner |-> 0, topInner |-> 0, bottomInner |-> 0]

\* scanWall(dir) from column c; -1 is null
RECURSIVE scanWall(_, _, _, _, _)
scanWall(rows, row, c, dir, w0) ==
  IF c >= 0 /\ c < w0
  THEN IF isWall(getCharAt(rows, row, c)) THEN c
       ELSE scanWall(rows, row, c + dir, dir, w0)
  ELSE -1

isTopBorderRow(rows, r, leftWall, rightWall) ==
  /\ isTopLeft(getCharAt(rows, r, leftWall))
  /\ isTopRight(getCharAt(rows, r, rightWall))
  /\ \A c \in (leftWall + 1)..(rightWall - 1) : isH(getCharAt(rows, r, c))

isBottomBorderRow(rows, r, leftWall, rightWall) ==
  /\ isBottomLeft(getCharAt(rows, r, leftWall))
  /\ isBottomRight(getCharAt(rows, r, rightWall))
  /\ \A c \in (leftWall + 1)..(rightWall - 1) : isH(getCharAt(rows, r, c))

\* const bounds = { left: leftWall, ... } and the four tests after it
boxBounds(row, col, leftWall, rightWall, top, bottom) ==
  IF leftWall + 1 > rightWall - 1 THEN NullBounds
  ELSE IF top + 1 > bottom - 1 THEN NullBounds
  ELSE IF row < top + 1 \/ row > bottom - 1 THEN NullBounds
  ELSE IF col < leftWall + 1 \/ col > rightWall - 1 THEN NullBounds
  ELSE [null |-> FALSE, left |-> leftWall, right |-> rightWall,
        top |-> top, bottom |-> bottom,
        leftInner |-> leftWall + 1, rightInner |-> rightWall - 1,
        topInner |-> top + 1, bottomInner |-> bottom - 1]

\* The border rows found by the two loops from row: the nearest top border
\* row at or above it, the nearest bottom border row at or below it.
boxBetween(row, col, leftWall, rightWall, tops, bottoms) ==
  IF tops = {} \/ bottoms = {} THEN NullBounds
  ELSE boxBounds(row, col, leftWall, rightWall,
                 CHOOSE r \in tops : \A q \in tops : q <= r,
                 CHOOSE r \in bottoms : \A q \in bottoms : r <= q)

boxWithin(rows, h0, row, col, leftWall, rightWall) ==
  IF leftWall = -1 \/ rightWall = -1 THEN NullBounds
  ELSE IF rightWall - leftWall < 2 THEN NullBounds
  ELSE boxBetween(row, col, leftWall, rightWall,
                  {r \in 0..row : isTopBorderRow(rows, r, leftWall, rightWall)},
                  {r \in row..(h0 - 1) : isBottomBorderRow(rows, r, leftWall, rightWall)})

boxAround(rows, w0, h0, row, col) ==
  boxWithin(rows, h0, row, col,
            scanWall(rows, row, col, -1, w0), scanWall(rows, row, col, 1, w0))

findEnclosingBoxBounds(rows, w0, h0, at) ==
  boxAround(rows, w0, h0, clampInt(at.row, 0, h0 - 1), clampInt(at.col, 0, w0 - 1))

\* The loop variables of overwriteTextIntoBuffer; stop is set by a break.
Pen(rows, row, col, stop) == [rows |-> rows, row |-> row, col |-> col, stop |-> stop]

\* row += 1; if (row >= base.height) break; col = to
nextRow(p, h0, to) ==
  IF p.row + 1 >= h0 THEN [p EXCEPT !.row = p.row + 1, !.stop = TRUE]
  ELSE [p EXCEPT !.row = p.row + 1, !.col = to]

\* the wrap to the next row, in a box only while a row of it is left
wrapRow(p, bounds, h0) ==
  IF ~bounds.null
  THEN IF p.row >= bounds.bottomInner THEN [p EXCEPT !.stop = TRUE]
       ELSE nextRow(p, h0, bounds.leftInner)
  ELSE nextRow(p, h0, 0)

\* col = snapColToCellStart(lines[row] ?? '', col, base.width)
snapPen(p, w0) ==
  IF p.stop THEN p
  ELSE [p EXCEPT !.col = snapColToCellStart(LineOr(p.rows, p.row), p.col, w0)]

\* ch === '\n'
newlinePen(p, bounds, w0, h0) ==
  IF p.row + 1 >= h0 THEN [p EXCEPT !.row = p.row + 1, !.stop = TRUE]
  ELSE IF ~bounds.null
  THEN IF p.row + 1 > bounds.bottomInner
       THEN [p EXCEPT !.row = p.row + 1, !.stop = TRUE]
       ELSE [p EXCEPT !.row = p.row + 1,
                      !.col = clampInt(p.col, bounds.leftInner, bounds.rightInner)]
  ELSE [p EXCEPT !.row = p.row + 1, !.col = clampInt(p.col, 0, w0 - 1)]

\* if (col < bounds.leftInner) col = bounds.leftInner
fromLeftInner(p, bounds) ==
  IF p.col < bounds.leftInner THEN [p EXCEPT !.col = bounds.leftInner] ELSE p

\* if (col > bounds.rightInner) { ... }
pastRightInner(p, bounds, h0) ==
  IF p.col > bounds.rightInner THEN wrapRow(p, bounds, h0) ELSE p

\* the place of the next cell: inside the governing region, at a cell start
placePen(p, bounds, w0, h0) ==
  snapPen(IF ~bounds.null
          THEN IF p.row < bounds.topInner \/ p.row > bounds.bottomInner
               THEN [p EXCEPT !.stop = TRUE]
               ELSE pastRightInner(fromLeftInner(p, bounds), bounds, h0)
          ELSE IF p.col >= w0 THEN nextRow(p, h0, 0) ELSE p,
          w0)

maxCol(bounds, w0) == IF ~bounds.null THEN bounds.rightInner ELSE w0 - 1

\* a wide grapheme stays on the row where the pen is
deferPen_Stay(p, ch, bounds, w0, h0) == p

\* a wide grapheme that does not fit before maxCol goes to the next row
deferPen(p, ch, bounds, w0, h0) ==
  IF p.stop THEN p
  ELSE IF ch # CONTINUATION_CELL /\ cellDisplayWidth(ch) = 2 /\ p.col + 1 > maxCol(bounds, w0)
  THEN snapPen(wrapRow(p, bounds, h0), w0)
  ELSE p

\* clearContinuationRight, setCharInLines and col += writeWidth; a wide
\* grapheme that still does not fit is written as a space
writtenPen(p, ch, bounds, w0) ==
  LET wide == ch # CONTINUATION_CELL /\ cellDisplayWidth(ch) = 2
      fits == ~(wide /\ p.col + 1 > maxCol(bounds, w0))
  IN [p EXCEPT
        !.rows = setCharInLines(clearContinuationRight(p.rows, p.row, p.col, w0),
                                p.row, p.col, IF fits THEN ch ELSE SPACE, w0),
        !.col = p.col + (IF wide /\ fits THEN 2 ELSE 1)]

\* the wrap after the write
afterWrite(p, bounds, w0, h0) ==
  IF ~bounds.null
  THEN IF p.col > bounds.rightInner
       THEN IF p.row >= bounds.bottomInner
            THEN [p EXCEPT !.col = bounds.rightInner, !.stop = TRUE]
            ELSE nextRow(p, h0, bounds.leftInner)
       ELSE p
  ELSE IF p.col >= w0 THEN nextRow(p, h0, 0) ELSE p

writePen(p, ch, bounds, w0, h0) ==
  IF p.stop THEN p ELSE afterWrite(writtenPen(p, ch, bounds, w0), bounds, w0, h0)

\* one iteration of for (const ch of toCells(...))
overwriteCell(p, ch, bounds, w0, h0) ==
  IF ch = CR THEN p
  ELSE IF ch = LF THEN newlinePen(p, bounds, w0, h0)
  ELSE writePen(deferPen(placePen(p, bounds, w0, h0), ch, bounds, w0, h0),
                ch, bounds, w0, h0)

RECURSIVE overwriteCells(_, _, _, _, _, _)
overwriteCells(p, cells, i, bounds, w0, h0) ==
  IF p.stop \/ i > Len(cells) THEN p
  ELSE overwriteCells(overwriteCell(p, cells[i], bounds, w0, h0), cells, i + 1,
                      bounds, w0, h0)

\* const cursorRow = ..., const cursorCol = ... and the value returned
overwriteResult(base, p, bounds, ref) ==
  LET cursorRow == IF ~bounds.null THEN clampInt(p.row, bounds.topInner, bounds.bottomInner)
                   ELSE clampInt(p.row, 0, base.height - 1)
      cursorCol == IF ~bounds.null THEN clampInt(p.col, bounds.leftInner, bounds.rightInner)
                   ELSE clampInt(p.col, 0, base.width - 1)
  IN [next |-> [base EXCEPT !.lines = NewLines(ref, p.rows)],
      cursor |-> [row |-> cursorRow,
                  col |-> snapColToCellStart(LineOr(p.rows, cursorRow), cursorCol,
                                             base.width)]]

\* the loop, with the box found around the start cell
overwriteIn(base, lines, start, bounds, text, ref) ==
  overwriteResult(base,
                  overwriteCells(Pen(lines, start.row, start.col, FALSE),
                                 toCells(ReplaceCRLF(text)), 1,
                                 bounds, base.width, base.height),
                  bounds, ref)

overwriteFrom(base, lines, start, text, ref) ==
  overwriteIn(base, lines, start,
              findEnclosingBoxBounds(lines, base.width, base.height, start), text, ref)

\* let row = clampInt(...), let col = clampInt(...), col = snapColToCellStart(...)
startCell(base, lines, at) ==
  LET row == clampInt(at.row, 0, base.height - 1)
  IN [row |-> row,
      col |-> snapColToCellStart(LineOr(lines, row), clampInt(at.col, 0, base.width - 1),
                                 base.width)]

overwriteOn(base, lines, at, text, ref) ==
  overwriteFrom(base, lines, startCell(base, lines, at), text, ref)

\* The new buffer's lines array is the clone, of identity ref.
overwriteTextIntoBuffer(base, at, text, ref) ==
  overwriteOn(base, cloneLines(base.lines.rows, base.height), at, text, ref)

\* The largest inner width and height of the boxes typed into.
MaxInner == 2

\* The longest text of one call.
MaxOverwriteLen == 3

Pipe == <<124>>

TextAlphabet == {LatinA, Hangul, LF, CONTINUATION_CELL, Pipe}

\* Rows of the canvas a box is drawn on: empty, narrow text, text with a
\* wide glyph, text with a typed '|'.
BoxedRows(w) ==
  {<<>>, Repeat(LatinA, w), [i \in 1..w |-> IF i = 3 THEN Pipe ELSE LatinA]}
  \cup {[i \in 1..w |-> IF i = k THEN Hangul
                        ELSE IF i = k + 1 THEN CONTINUATION_CELL ELSE LatinA]
          : k \in 2..3}

\* The frame of inner size iw x ih drawn one cell away from the edges of a
\* canvas of iw + 4 columns and ih + 4 rows.
BoxOf(iw, ih) == [top |-> 1, left |-> 1, bottom |-> ih + 2, right |-> iw + 2]

BoxedBuffer(iw, ih, row, style) ==
  drawRect([width |-> iw + 4, height |-> ih + 4,
            lines |-> NewLines(1, [i \in 1..(ih + 4) |-> row])],
           [row |-> 1, col |-> 1], [row |-> ih + 2, col |-> iw + 2], style, 1)

InnerCells(box) ==
  {[row |-> r, col |-> c] : r \in (box.top + 1)..(box.bottom - 1),
                            c \in (box.left + 1)..(box.right - 1)}

ApplyOverwriteTextIntoBuffer ==
  /\ call.fn = "overwriteTextIntoBuffer"
  /\ ret.fn = "none"
  /\ LET result == overwriteTextIntoBuffer(call.base, call.at, call.text, 2)
     IN Return([fn |-> "overwriteTextIntoBuffer", next |-> result.next,
                cursor |-> result.cursor])

\* A text of up to MaxOverwriteLen graphemes typed or pasted at a cell inside
\* the box, or at the canvas's first cell.
InitOverwrite ==
  \E iw \in 1..MaxInner, ih \in 1..MaxInner, style \in DrawStyles :
    \E row \in BoxedRows(iw + 4) :
      \E at \in InnerCells(BoxOf(iw, ih)) \cup {[row |-> 0, col |-> 0]} :
        \E n \in 0..MaxOverwriteLen :
          \E text \in [1..n -> TextAlphabet] :
            StartCall([fn |-> "overwriteTextIntoBuffer",
                       base |-> BoxedBuffer(iw, ih, row, style),
                       at |-> at, text |-> text, box |-> BoxOf(iw, ih)])

NextOverwrite == ApplyOverwriteTextIntoBuffer

SpecOverwrite == InitOverwrite /\ [][NextOverwrite]_vars

\* ---------------------------------------------------------------- views
\* The content of layers and history entries, without array identities.
StripLayers(ls) ==
  [i \in 1..Len(ls) |->
    [id |-> ls[i].id, name |-> ls[i].name, visible |-> ls[i].visible,
     locked |-> ls[i].locked, width |-> ls[i].buffer.width,
     height |-> ls[i].buffer.height, rows |-> ls[i].buffer.lines.rows]]

StripEntry(e) ==
  [layers |-> StripLayers(e.layers), activeLayerId |-> e.activeLayerId,
   width |-> e.width, height |-> e.height]

StripHistory(h) == [i \in 1..Len(h) |-> StripEntry(h[i])]

\* layers, activeLayerId, width and height of a store state
View(s) == StripEntry(s)

\* The operations that push a snapshot onto past when they take effect.
RecordingOps ==
  {"newBuffer", "setBufferFromText", "loadBufferFromTextAutoSize", "commitBuffer",
   "addLayer", "removeLayer", "setLayerName"}

IsSuffix(a, b) == Len(a) <= Len(b) /\ a = SubSeq(b, Len(b) - Len(a) + 1, Len(b))

TypeOK ==
  /\ width \in 1..2000
  /\ height \in 1..2000
  /\ steps \in 0..MaxSteps
  /\ cursor.null \in BOOLEAN

\* ---------------------------------------------------------------- C1
\* C1: while the active layer is locked, a call of commitBuffer or
\* setBufferFromText leaves layers, past, future and cursor as they were (no
\* snapshot is pushed); with the active layer unlocked the same call takes
\* effect: the active buffer becomes the given one, the previous state is
\* the newest past entry and future is empty.
C1_LockedIsNoOp ==
  [][ /\ (lastOp' \in {"commitBuffer", "setBufferFromText"} /\ ActiveLayerLocked(St))
         => (layers' = layers /\ past' = past /\ future' = future /\ cursor' = cursor)
      /\ (lastOp' = "commitBuffer" /\ ~ActiveLayerLocked(St))
         => /\ \E b \in CommitInputs(St) : getBuffer(St') = b
            /\ past' # <<>> /\ StripEntry(Last(past')) = View(St)
            /\ future' = <<>> /\ cursor' = NullCursor
      /\ (lastOp' = "setBufferFromText" /\ ~ActiveLayerLocked(St))
         => /\ \E t \in SetTexts :
                 getBuffer(St').lines.rows
                   = normalizeTextToBuffer(t, width, height, 0).lines.rows
            /\ past' # <<>> /\ StripEntry(Last(past')) = View(St)
            /\ future' = <<>> /\ cursor' = cursor
    ]_vars

\* A locked active layer has just been given a commit or a text.
C1_Witness ==
  /\ lastOp \in {"commitBuffer", "setBufferFromText"}
  /\ ActiveLayerLocked(St)
  /\ past = <<>>

\* ---------------------------------------------------------------- C2
\* C2: in every reachable state past holds at most
\* historyLimitForSize(width, height) entries for the current session size;
\* a step that pushes keeps the most recent entries: the new past is a
\* suffix of the old past followed by the snapshot of the state the step
\* started from, so only the oldest entries are dropped.
C2_HistoryBound ==
  /\ [](/\ Len(past) <= historyLimitForSize(width, height)
        /\ historyLimitForSize(100, 100) = 200
        /\ historyLimitForSize(101, 100) = 100
        /\ historyLimitForSize(300, 300) = 100
        /\ historyLimitForSize(301, 300) = 50
        /\ historyLimitForSize(1000, 1000) = 50
        /\ historyLimitForSize(1001, 1000) = 20)
  /\ [][ (lastOp' \in RecordingOps \cup {"redo", "applyInsertFigure"} /\ past' # past)
         => /\ past' # <<>>
            /\ IsSuffix(StripHistory(past'), Append(StripHistory(past), View(St)))
       ]_vars

\* A commit in a huge session with a full history has pushed its snapshot
\* and dropped the oldest entry (the 80 x 24 session the history began with).
C2_Witness ==
  /\ lastOp = "commitBuffer"
  /\ width * height > 1000 * 1000
  /\ Len(past) = historyLimitForSize(width, height)
  /\ past[1].width = width
  /\ future = <<>>
  /\ steps = 1

\* ---------------------------------------------------------------- C3
\* C3: undo with a non-empty past restores layers, activeLayerId, width and
\* height to the newest past entry, removes that entry from past and puts a
\* snapshot of the state it started from at the front of future; the newest
\* past entry is always the state that held just before the step that
\* pushed it.  undo with an empty past and redo with an empty future change
\* nothing.
C3_UndoRestores ==
  [][ /\ (lastOp' = "undo" /\ past # <<>>)
         => /\ View(St') = StripEntry(Last(past))
            /\ past' = Front(past)
            /\ future' # <<>>
            /\ StripEntry(Head(future')) = View(St)
            /\ StripHistory(Tail(future')) = StripHistory(future)
      /\ (lastOp' = "undo" /\ past = <<>>) => St' = St
      /\ (lastOp' = "redo" /\ future = <<>>) => St' = St
      /\ (lastOp' \in RecordingOps \cup {"redo", "applyInsertFigure"} /\ past' # past)
         => (past' # <<>> /\ StripEntry(Last(past')) = View(St))
    ]_vars

\* An undo has just brought back a session of another size.
C3_Witness ==
  /\ lastOp = "undo"
  /\ future # <<>>
  /\ <<width, height>> # <<Head(future).width, Head(future).height>>

\* ---------------------------------------------------------------- C4
\* How many undos followed by as many redos are tried from each state.
MaxRoundTrip == 2

RECURSIVE UndoTimes(_, _)
UndoTimes(s, k) == IF k = 0 THEN s ELSE undo(UndoTimes(s, k - 1))

RECURSIVE RedoTimes(_, _)
RedoTimes(s, k) == IF k = 0 THEN s ELSE redo(RedoTimes(s, k - 1))

\* C4: from every reachable state with n entries in past and for every
\* k <= n, k undos followed by k redos give back the layers, activeLayerId,
\* width, height and the past stack of that state, also when the entries
\* undone belong to a session of another size.
C4_RedoInvertsUndo ==
  \A k \in 0..Min(Len(past), MaxRoundTrip) :
    LET back == RedoTimes(UndoTimes(St, k), k) IN
      /\ View(back) = View(St)
      /\ StripHistory(back.past) = StripHistory(past)

\* ---------------------------------------------------------------- C5
\* C5: every history-recording action that takes effect leaves future
\* empty, and while future is non-empty the live layers are the ones the
\* most recent undo or redo restored: no step other than undo and redo
\* changes the layers and leaves future non-empty.
C5_NoBranchingRedo ==
  [][ /\ (lastOp' \in RecordingOps /\ St' # St) => future' = <<>>
      /\ (future' # <<>> /\ StripLayers(layers') # StripLayers(layers))
         => lastOp' \in {"undo", "redo"}
    ]_vars

\* ---------------------------------------------------------------- C6
\* C6: a layer that is locked and is not given a toggleLayerLock by the step
\* still exists after the step, with the same buffer.
C6_LockedLayerUntouched ==
  [][ \A i \in 1..Len(layers) :
        (layers[i].locked /\ lastOp' # "toggleLayerLock")
        => \E j \in 1..Len(layers') :
             /\ layers'[j].id = layers[i].id
             /\ layers'[j].buffer.width = layers[i].buffer.width
             /\ layers'[j].buffer.height = layers[i].buffer.height
             /\ layers'[j].buffer.lines.rows = layers[i].buffer.lines.rows
    ]_vars

\* ---------------------------------------------------------------- C7
\* C7: the layer list is never empty, and removeLayer on a session with a
\* single layer changes nothing.
C7_AtLeastOneLayer ==
  /\ [](Len(layers) >= 1)
  /\ [][ (lastOp' = "removeLayer" /\ Len(layers) = 1) => St' = St ]_vars

\* removeLayer has taken two layers with the same generated id at once and
\* left the single remaining layer.
C7_Witness ==
  /\ lastOp = "removeLayer"
  /\ Len(layers) = 1
  /\ Len(past) = 3
  /\ Len(Last(past).layers) = 3

\* ---------------------------------------------------------------- C8
\* C8: in every reachable state activeLayerId is the id of exactly one
\* layer of the layer list.
C8_ExactlyOneActive ==
  Cardinality({i \in 1..Len(layers) : layers[i].id = activeLayerId}) = 1

\* ---------------------------------------------------------------- C9
Entries(h) == {h[i] : i \in 1..Len(h)}

\* C9: a snapshot in past or future never changes after it was pushed:
\* after every step each entry of past and future is an entry that was
\* already there, identical in layers, flags, buffers and lines, or it is
\* the one new snapshot of the state the step started from; and no live
\* layer shares its lines array with a history entry.
C9_SnapshotsImmutable ==
  /\ [](LayerRefs(layers) \cap (HistoryRefs(past) \cup HistoryRefs(future)) = {})
  /\ [][ LET old == Entries(past) \cup Entries(future) IN
           /\ \A i \in 1..Len(past') :
                \/ past'[i] \in old
                \/ (i = Len(past') /\ StripEntry(past'[i]) = View(St))
           /\ \A i \in 1..Len(future') :
                \/ future'[i] \in old
                \/ (i = 1 /\ StripEntry(future'[i]) = View(St))
       ]_vars

\* A layer was locked or hidden after an undo: future holds the
\* snapshot taken by the undo, and the live layers have moved on.
C9_Witness ==
  /\ lastOp \in {"toggleLayerLock", "toggleLayerVisibility"}
  /\ future # <<>>
  /\ StripLayers(layers) # StripLayers(Head(future).layers)

\* ---------------------------------------------------------------- C10
\* C10: in every reachable state the buffer of every layer has the
\* session's width and height.
C10_LayersShareSize ==
  \A i \in 1..Len(layers) :
    /\ layers[i].buffer.width = width
    /\ layers[i].buffer.height = height

\* ---------------------------------------------------------------- C11
\* C11: the contents written by a save (with right padding on, the default)
\* are the flattened composite of the session's layers, the text the canvas
\* renders, normalized for the chosen newline.
C11_SavedIsComposite ==
  (lastOp = "saveBufferText" /\ saved.written /\ saved.padRight)
    => saved.contents = normalizeForSave(CodePoints(renderText(St)), saved.newline)

\* ---------------------------------------------------------------- C12
\* 0-based cell of a row, a space where the row has none
Cell0(cells, c) == IF c >= 0 /\ c < Len(cells) THEN cells[c + 1] ELSE SPACE

\* C12: setCharInLines on a well-formed row, an in-range column and a narrow
\* or wide grapheme returns a well-formed row no longer than width;
\* overwriting a continuation blanks the wide cell that owned it,
\* overwriting a wide cell with a narrow grapheme blanks its continuation, a
\* wide grapheme takes the next column as its continuation and blanks the
\* continuation of a wide cell it displaces there, and a wide grapheme
\* written in the last column becomes a space.
C12_SetCharKeepsPairing ==
  (ret.fn = "setCharInLines" /\ call.row = 0 /\ call.col >= 0 /\ call.col < call.width)
    => LET old == call.lines[1]
           new == ret.lines[1]
           col == call.col
           wide == cellDisplayWidth(call.ch) = 2
           fits == col + 1 < call.width
       IN /\ WellFormedRow(new)
          /\ Len(new) <= call.width
          /\ Len(ret.lines) = 1
          /\ Cell0(old, col) = CONTINUATION_CELL => Cell0(new, col - 1) = SPACE
          /\ (cellDisplayWidth(Cell0(old, col)) = 2 /\ ~wide) => Cell0(new, col + 1) = SPACE
          /\ ~wide => Cell0(new, col) = call.ch
          /\ (wide /\ fits) =>
               /\ Cell0(new, col) = call.ch
               /\ Cell0(new, col + 1) = CONTINUATION_CELL
               /\ cellDisplayWidth(Cell0(old, col + 1)) = 2 => Cell0(new, col + 2) = SPACE
          /\ (wide /\ ~fits) => Cell0(new, col) = SPACE

\* A wide grapheme was written over the continuation of a wide cell, with
\* another wide cell in the next column.
C12_Witness ==
  /\ ret.fn = "setCharInLines"
  /\ call.row = 0
  /\ call.lines[1] = <<Hangul, CONTINUATION_CELL, Hangul, CONTINUATION_CELL>>
  /\ call.col = 1
  /\ call.ch = Hangul
  /\ ret.lines[1] = <<SPACE, Hangul, CONTINUATION_CELL, SPACE>>

\* ---------------------------------------------------------------- C13
\* C13: after a block copied from any rectangle of a well-formed buffer is
\* pasted at any position of a well-formed buffer, every row of the result
\* has the wide-glyph pairing (each continuation directly after a wide
\* content cell, each wide content cell followed by its continuation).
C13_PasteKeepsPairing ==
  ret.fn = "pasteRectIntoBuffer"
    => \A i \in 1..Len(ret.buffer.lines.rows) : WellFormedRow(ret.buffer.lines.rows[i])

\* ---------------------------------------------------------------- C14
\* s with every newline an LF and no CR
NormalizeNewlines(text) == SelectSeq(ReplaceCRLF(text), LAMBDA g : g # CR)

\* C14: for a string s of narrow and wide graphemes, newlines and carriage
\* returns, toDisplayText(toInternalText(s)) is s with its newlines
\* normalized to LF and its carriage returns stripped.
C14_RoundTrip ==
  ret.fn = "toDisplayText"
    => CodePoints(ret.text) = CodePoints(NormalizeNewlines(call.text))

\* ---------------------------------------------------------------- C15
\* the content cells of a row (its cells without continuation sentinels)
ContentCells(cells) == SelectSeq(cells, LAMBDA g : g # CONTINUATION_CELL)

IsPrefix(a, b) == Len(a) <= Len(b) /\ a = SubSeq(b, 1, Len(a))

\* C15: sliceCells(text, maxColumns) returns a prefix of the text's cells of
\* display width at most maxColumns, in which every wide grapheme is
\* followed by exactly one continuation and no continuation stands without
\* its wide cell; maxColumns <= 0 gives the empty row.
C15_SliceCells ==
  ret.fn = "sliceCells"
    => /\ IsPrefix(ContentCells(ret.text), ContentCells(call.text))
       /\ cellLength(ret.text) <= Max(call.width, 0)
       /\ WellFormedRow(ret.text)
       /\ call.width <= 0 => ret.text = <<>>

\* ---------------------------------------------------------------- C16
\* neither a space nor the transparent sentinel
Opaque(cell) == cell # SPACE /\ cell # TRANSPARENT_CELL

\* the cell of layer k of ls at 0-based column c (a space where its row has
\* none)
LayerCell(ls, k, c) == Cell0(ls[k].buffer.lines.rows[1], c)

\* the visible layers of ls that are opaque at column c
OpaqueAt(ls, c) == {k \in 1..Len(ls) : ls[k].visible /\ Opaque(LayerCell(ls, k, c))}

\* the cell the topmost opaque visible layer has at column c, else a space
TopCell(ls, c) ==
  IF OpaqueAt(ls, c) = {} THEN SPACE
  ELSE LayerCell(ls, CHOOSE k \in OpaqueAt(ls, c) : \A j \in OpaqueAt(ls, c) : j <= k, c)

\* C16 as stated: at every coordinate the composite shows the cell of the
\* topmost visible layer that is opaque there, or a space if there is none.
C16_TopmostOpaque ==
  (ret.fn = "compositeBuffers")
    => \A c \in 0..(call.width - 1) :
         ret.buffer.lines.rows[1][c + 1] = TopCell(call.layers, c)

\* the column of the other half of the glyph a cell belongs to
Partner(cell, c) ==
  IF cell = CONTINUATION_CELL THEN c - 1
  ELSE IF cellDisplayWidth(cell) = 2 THEN c + 1
  ELSE c

\* the topmost opaque cell at column c is half of a wide glyph whose other
\* half lies under an opaque cell of a higher visible layer
Cut(ls, c) ==
  /\ OpaqueAt(ls, c) # {}
  /\ LET k == CHOOSE k \in OpaqueAt(ls, c) : \A j \in OpaqueAt(ls, c) : j <= k
         p == Partner(LayerCell(ls, k, c), c)
     IN p # c /\ \E j \in OpaqueAt(ls, p) : j > k

\* C16 (amended): the composite is a width x height buffer with the
\* wide-glyph pairing; at every coordinate it shows the cell of the topmost
\* visible layer that is opaque there, or a space if there is none, except
\* that a half of a wide glyph whose other half is covered by an opaque cell
\* of a higher visible layer shows as a space.  A space or a transparent
\* sentinel in an upper layer hides nothing.
C16_ZOrder ==
  (ret.fn = "compositeBuffers")
    => LET out == ret.buffer.lines.rows IN
         /\ ret.buffer.width = call.width
         /\ ret.buffer.height = call.height
         /\ Len(out) = call.height
         /\ Len(out[1]) = call.width
         /\ WellFormedRow(out[1])
         /\ \A c \in 0..(call.width - 1) :
              out[1][c + 1] = IF Cut(call.layers, c) THEN SPACE ELSE TopCell(call.layers, c)

\* A narrow cell of the upper layer covers the continuation of a wide glyph
\* of the background, and a space of the upper layer lets the background
\* show.
C16_Witness ==
  /\ ret.fn = "compositeBuffers"
  /\ Len(call.layers) = 2
  /\ call.layers[1].visible /\ call.layers[2].visible
  /\ call.layers[1].buffer.lines.rows[1] = <<Hangul, CONTINUATION_CELL, LatinA>>
  /\ call.layers[2].buffer.lines.rows[1] = <<SPACE, LatinA, SPACE>>
  /\ ret.buffer.lines.rows[1] = <<SPACE, LatinA, LatinA>>

\* ---------------------------------------------------------------- C17
\* the layer list that differs from ls in the hidden layers only: each has
\* the row other and the opposite lock flag
WithHiddenChanged(ls, other) ==
  [k \in 1..Len(ls) |->
    IF ls[k].visible THEN ls[k]
    ELSE [ls[k] EXCEPT !.locked = ~@, !.buffer.lines.rows = <<other>>]]

\* width, height and rows of a buffer
Content(buffer) ==
  [width |-> buffer.width, height |-> buffer.height, rows |-> buffer.lines.rows]

\* C17: two layer lists that differ only in the buffers and lock flags of
\* their hidden layers have the same composite.
C17_HiddenLayersIgnored ==
  (ret.fn = "compositeBuffers")
    => Content(compositeBuffers(WithHiddenChanged(call.layers, call.other),
                                call.width, call.height, 5))
         = Content(ret.buffer)

\* The hidden background holds a wide glyph where the second list holds
\* narrow ones, and the composite shows the visible layer alone.
C17_Witness ==
  /\ ret.fn = "compositeBuffers"
  /\ Len(call.layers) = 2
  /\ ~call.layers[1].visible /\ call.layers[2].visible
  /\ call.layers[1].buffer.lines.rows[1] = <<Hangul, CONTINUATION_CELL>>
  /\ call.other = <<LatinA, LatinA>>
  /\ call.layers[2].buffer.lines.rows[1] = <<SPACE, SPACE, LatinA>>
  /\ ret.buffer.lines.rows[1] = <<SPACE, SPACE, LatinA>>

\* ---------------------------------------------------------------- C18
VisibleLayers(ls) == {k \in 1..Len(ls) : ls[k].visible}

\* a transparent sentinel reads as a space
AsBlank(cell) == IF cell = TRANSPARENT_CELL THEN SPACE ELSE cell

\* C18: the composite of a layer list with a single visible layer (whose
\* buffer is well-formed) is that layer's buffer cell for cell, a missing
\* trailing column and a transparent sentinel reading as a space; a
\* composite that is composited again, alone, comes out the same.
C18_SingleLayerReproduced ==
  /\ (ret.fn = "compositeBuffers" /\ Cardinality(VisibleLayers(call.layers)) = 1)
       => LET k == CHOOSE k \in VisibleLayers(call.layers) : TRUE IN
            /\ Len(ret.buffer.lines.rows[1]) = call.width
            /\ \A c \in 0..(call.width - 1) :
                 ret.buffer.lines.rows[1][c + 1] = AsBlank(LayerCell(call.layers, k, c))
  /\ ret.fn = "compositeAgain" => Content(ret.buffer) = Content(ret.first)

\* A single layer with a transparent cell, a wide glyph and a missing last
\* column was composited, and the result composited again.
C18_Witness ==
  /\ ret.fn = "compositeAgain"
  /\ Len(call.layers) = 1
  /\ call.layers[1].visible
  /\ call.width = 3
  /\ call.layers[1].buffer.lines.rows[1] = <<TRANSPARENT_CELL, Hangul, CONTINUATION_CELL>>
  /\ ret.first.lines.rows[1] = <<SPACE, Hangul, CONTINUATION_CELL>>
  /\ ret.buffer.lines.rows[1] = <<SPACE, Hangul, CONTINUATION_CELL>>

\* ---------------------------------------------------------------- C19
\* the cell of a buffer's rows at (r, c), a space where the row has none
BufferCell(rows, r, c) == Cell0(LineOr(rows, r), c)

\* the bounding box of the call's two cells
Box == [x1 |-> Min(call.a.col, call.b.col), x2 |-> Max(call.a.col, call.b.col),
        y1 |-> Min(call.a.row, call.b.row), y2 |-> Max(call.a.row, call.b.row)]

OnPerimeter(r, c) ==
  /\ r >= Box.y1 /\ r <= Box.y2 /\ c >= Box.x1 /\ c <= Box.x2
  /\ (r = Box.y1 \/ r = Box.y2 \/ c = Box.x1 \/ c = Box.x2)

IsCorner(r, c) == (r = Box.y1 \/ r = Box.y2) /\ (c = Box.x1 \/ c = Box.x2)

\* the glyphs of the frame: the corners (in a one-row or one-column box a
\* corner glyph of the style, at a single point the top-left one), the
\* horizontal glyph between them on the top and bottom edges, the vertical
\* glyph on the left and right edges
FrameDrawn ==
  LET chars == styleChars(call.style)
      new == ret.buffer.lines.rows
      b == Box
  IN \A r \in b.y1..b.y2 : \A c \in b.x1..b.x2 :
       OnPerimeter(r, c) =>
         IF b.x1 = b.x2 /\ b.y1 = b.y2 THEN BufferCell(new, r, c) = chars.tl
         ELSE IF IsCorner(r, c) THEN
           IF b.x1 = b.x2 \/ b.y1 = b.y2
           THEN BufferCell(new, r, c) \in {chars.tl, chars.tr, chars.bl, chars.br}
           ELSE BufferCell(new, r, c) =
                  (IF r = b.y1 THEN IF c = b.x1 THEN chars.tl ELSE chars.tr
                   ELSE IF c = b.x1 THEN chars.bl ELSE chars.br)
         ELSE IF r = b.y1 \/ r = b.y2 THEN BufferCell(new, r, c) = chars.h
         ELSE BufferCell(new, r, c) = chars.v

SizeKept ==
  /\ ret.buffer.width = call.base.width
  /\ ret.buffer.height = call.base.height
  /\ Len(ret.buffer.lines.rows) = call.base.height

\* the caller's buffer is as it was
CallerUntouched == ret.base = call.base

\* C19 as stated: drawRect draws the frame, leaves every cell that is not on
\* the perimeter unchanged, keeps width, height and row count and does not
\* mutate the caller's buffer.
C19_DrawRectFrameOnly ==
  ret.fn = "drawRect"
    => /\ FrameDrawn
       /\ SizeKept
       /\ CallerUntouched
       /\ \A r \in 0..(call.base.height - 1) : \A c \in 0..(call.base.width - 1) :
            ~OnPerimeter(r, c)
              => BufferCell(ret.buffer.lines.rows, r, c) = BufferCell(call.base.lines.rows, r, c)

\* C19 (amended): drawRect draws the frame, keeps width, height and row
\* count and does not mutate the caller's buffer; a cell that is not on the
\* perimeter is unchanged, except that the other half of a wide glyph which
\* the perimeter overwrites becomes a space.
C19_DrawRect ==
  ret.fn = "drawRect"
    => /\ FrameDrawn
       /\ SizeKept
       /\ CallerUntouched
       /\ \A i \in 1..Len(ret.buffer.lines.rows) : WellFormedRow(ret.buffer.lines.rows[i])
       /\ \A r \in 0..(call.base.height - 1) : \A c \in 0..(call.base.width - 1) :
            ~OnPerimeter(r, c)
              => LET old == BufferCell(call.base.lines.rows, r, c)
                 IN BufferCell(ret.buffer.lines.rows, r, c) =
                      IF OnPerimeter(r, Partner(old, c)) THEN SPACE ELSE old

\* A unicode box whose left corners lie on the continuations of two wide
\* glyphs, with a narrow cell left of its left edge.
C19_Witness ==
  /\ ret.fn = "drawRect"
  /\ call.style = "unicode"
  /\ call.base.lines.rows = << <<Hangul, CONTINUATION_CELL, LatinA>>,
                               <<LatinA, LatinA, LatinA>>,
                               <<Hangul, CONTINUATION_CELL, LatinA>> >>
  /\ call.a = [row |-> 2, col |-> 2]
  /\ call.b = [row |-> 0, col |-> 1]
  /\ ret.buffer.lines.rows = << <<SPACE, <<9484>>, <<9488>>>>,
                                <<LatinA, <<9474>>, <<9474>>>>,
                                <<SPACE, <<9492>>, <<9496>>>> >>
  /\ ret.base = call.base

\* ---------------------------------------------------------------- C20
\* consecutive points differ by at most 1 in row and in column
Connected(points) ==
  \A i \in 1..(Len(points) - 1) :
    /\ Abs(points[i + 1].row - points[i].row) <= 1
    /\ Abs(points[i + 1].col - points[i].col) <= 1

\* C20: every bresenham(a, b) of a gesture ends (no run is cut), starts at
\* a, ends at b and is connected; the points accumulated over the samples of
\* the gesture are connected from the pointer-down cell to the last sample.
C20_StrokeConnected ==
  ret.fn = "gesture"
    => /\ \A i \in 1..Len(ret.segment) : ret.segment[i] # NoCell
       /\ ret.segment[1] = ret.from
       /\ Last(ret.segment) = ret.last
       /\ Connected(ret.segment)
       /\ ret.points[1] = call.start
       /\ Last(ret.points) = ret.last
       /\ Connected(ret.points)

\* Two samples, each more than one cell from the previous point, the second
\* along a shallow diagonal.
C20_Witness ==
  /\ ret.fn = "gesture"
  /\ ret.moves = 2
  /\ call.start = [row |-> 0, col |-> 0]
  /\ ret.from = [row |-> 3, col |-> 0]
  /\ ret.last = [row |-> 2, col |-> 3]
  /\ Len(ret.segment) = 4
  /\ Len(ret.points) = 7

\* The inner region of a box: the cells strictly inside its frame.
InInner(box, r, c) ==
  /\ r > box.top /\ r < box.bottom
  /\ c > box.left /\ c < box.right

\* The cells of the inner region from cell at on, in row-major order.
RECURSIVE InnerFrom(_, _)
InnerFrom(box, at) ==
  IF at.row >= box.bottom THEN <<>>
  ELSE <<at>> \o InnerFrom(box, IF at.col + 1 < box.right
                                THEN [row |-> at.row, col |-> at.col + 1]
                                ELSE [row |-> at.row + 1, col |-> box.left + 1])

\* What a call of overwriteTextIntoBuffer leaves outside and inside box.
StaysInBox(box) ==
  /\ ret.next.width = call.base.width
  /\ ret.next.height = call.base.height
  /\ Len(ret.next.lines.rows) = call.base.height
  /\ \A r \in 0..(call.base.height - 1), c \in 0..(call.base.width - 1) :
       ~InInner(box, r, c) =>
         BufferCell(ret.next.lines.rows, r, c) = BufferCell(call.base.lines.rows, r, c)
  /\ InInner(box, ret.cursor.row, ret.cursor.col)
  /\ (\A i \in 1..Len(call.text) : call.text[i] = LatinA) =>
       LET cells == InnerFrom(box, snapCursorToCellStartInBuffer(call.base, call.at))
       IN \A k \in 1..Min(Len(cells), Len(call.text)) :
            BufferCell(ret.next.lines.rows, cells[k].row, cells[k].col) = LatinA

\* C21: when the insertion point is inside a drawn box, overwriteTextIntoBuffer
\* changes only cells of the box's inner region (walls, border rows and every
\* cell outside are unchanged however long the text is), text wraps from the
\* inner right edge to the inner left edge of the next inner row and stops
\* when the inner bottom row is full, and the returned cursor lies in the
\* inner region.
C21_TextStaysInBox ==
  (ret.fn = "overwriteTextIntoBuffer" /\ InInner(call.box, call.at.row, call.at.col))
    => StaysInBox(call.box)

\* ---------------------------------------------------------------- C22
\* the block pasted by the call
PastedClip == copyRectFromBuffer(call.base, call.rect, NullCell)

\* rowCells[c] ?? ' ' of block row r
ClipCell(clip, r, c) == Cell0(toCells(LineOr(clip.lines, r)), c)

\* the cell (r, c) of the block lands inside the buffer
LandsInside(r, c) ==
  /\ call.at.row + r >= 0 /\ call.at.row + r < call.target.height
  /\ call.at.col + c >= 0 /\ call.at.col + c < call.target.width

\* size and row count are kept, rows outside the block's row range are
\* unchanged, a null clipboard returns the buffer itself
PasteFrame(clip) ==
  /\ ret.buffer.width = call.target.width
  /\ ret.buffer.height = call.target.height
  /\ Len(ret.buffer.lines.rows) = call.target.height
  /\ clip.null => ret.buffer = call.target
  /\ ~clip.null =>
       \A r \in 0..(call.target.height - 1) :
         (r < call.at.row \/ r >= call.at.row + clip.height)
           => ret.buffer.lines.rows[r + 1] = call.target.lines.rows[r + 1]

\* C22: pasting a block that extends past any edge of the buffer keeps the
\* buffer's width, height and row count, writes every block cell whose
\* target is in bounds at that target, drops the others, and leaves the rows
\* outside the block's row range unchanged; a null clipboard returns the
\* buffer unchanged.
C22_PasteClipsAtEdges ==
  ret.fn = "pasteRectIntoBuffer" =>
    LET clip == PastedClip
    IN /\ PasteFrame(clip)
       /\ ~clip.null =>
            \A r \in 0..(clip.height - 1), c \in 0..(clip.width - 1) :
              LandsInside(r, c) =>
                BufferCell(ret.buffer.lines.rows, call.at.row + r, call.at.col + c)
                  = ClipCell(clip, r, c)

\* what the buffer holds where the block cell g was written at column col:
\* g itself, a space for a wide glyph with no column left for its
\* continuation, a continuation or the space that replaced it
PastedCell(g, col, cell) ==
  IF g = CONTINUATION_CELL THEN cell \in {CONTINUATION_CELL, SPACE}
  ELSE IF cellDisplayWidth(g) = 2 /\ col + 1 >= call.target.width THEN cell = SPACE
  ELSE cell = g

\* C22 (amended): as C22, but a wide glyph of the block whose target is the
\* buffer's last column is written as a space, and a continuation cell of
\* the block is written as a continuation or, when the glyph it would
\* belong to is not in front of it, as a space.
C22_PasteClips ==
  ret.fn = "pasteRectIntoBuffer" =>
    LET clip == PastedClip
    IN /\ PasteFrame(clip)
       /\ ~clip.null =>
            \A r \in 0..(clip.height - 1), c \in 0..(clip.width - 1) :
              LandsInside(r, c) =>
                PastedCell(ClipCell(clip, r, c), call.at.col + c,
                           BufferCell(ret.buffer.lines.rows, call.at.row + r, call.at.col + c))

\* a two-row block with a wide glyph pasted at the last row, one column
\* right: its second row and its third column are dropped and the glyph,
\* landing on the last column, is written as a space
C22_Witness ==
  /\ ret.fn = "pasteRectIntoBuffer"
  /\ call.base.lines.rows[1] = <<LatinA, Hangul, CONTINUATION_CELL>>
  /\ call.rect = [top |-> 0, left |-> 0, bottom |-> 1, right |-> 2]
  /\ call.at = [row |-> 1, col |-> 1]
  /\ call.target.lines.rows[1] = <<Hangul, CONTINUATION_CELL, LatinA>>
  /\ ret.buffer.lines.rows =
       <<<<Hangul, CONTINUATION_CELL, LatinA>>, <<LatinA, LatinA, SPACE>>>>

\* ------------------------------------- App: tools, gestures, selection
\* The store and the component state a handler of App reads and writes.
AppState(s, u) == [s |-> s, u |-> u]

Ap == AppState(St, ui)

normalizeRect(a, b) ==
  [null |-> FALSE, top |-> Min(a.row, b.row), left |-> Min(a.col, b.col),
   bottom |-> Max(a.row, b.row), right |-> Max(a.col, b.col)]

\* for r = top..bottom, for c = left..right: setCharInLines(lines, r, c, fillChar, width)
rectWrites(rect, fillChar) ==
  LET size == rectSize(rect) IN
    [k \in 1..(Max(0, size.height) * Max(0, size.width)) |->
       Write(rect.top + ((k - 1) \div size.width), rect.left + ((k - 1) % size.width),
             fillChar)]

applyRectFill(base, rect, fillChar, ref) ==
  [base EXCEPT !.lines =
     NewLines(ref, writeCells(cloneLines(base.lines.rows, base.height),
                              rectWrites(rect, fillChar), base.width))]

\* chars.arrow of styleChars(style)
styleArrow(style) ==
  IF style = "unicode"
  THEN [left |-> <<8592>>, right |-> <<8594>>, up |-> <<8593>>, down |-> <<8595>>]
  ELSE [left |-> <<60>>, right |-> <<62>>, up |-> <<94>>, down |-> <<118>>]

\* chars.elbow(from, to) of styleChars(style)
styleElbow(style, from, to) ==
  IF style = "unicode"
  THEN LET fromLeft == to.col > from.col
           down == to.row > from.row
       IN IF fromLeft /\ down THEN <<9488>>
          ELSE IF fromLeft /\ ~down THEN <<9496>>
          ELSE IF ~fromLeft /\ down THEN <<9484>>
          ELSE <<9492>>
  ELSE <<43>>

\* the arrow head drawOrthogonal stamps on b
arrowHead(a, b, style) ==
  IF b.row # a.row
  THEN (IF b.row > a.row THEN styleArrow(style).down ELSE styleArrow(style).up)
  ELSE IF b.col # a.col
  THEN (IF b.col > a.col THEN styleArrow(style).right ELSE styleArrow(style).left)
  ELSE styleArrow(style).right

\* The calls of setCharInLines drawOrthogonal makes, in its order.
drawOrthogonalWrites(base, a, b, style, arrow) ==
  (IF a.col # b.col
   THEN drawHorizontal(a.row, a.col, b.col, base.width, styleChars(style).h) ELSE <<>>)
  \o (IF a.row # b.row
      THEN drawVertical(b.col, a.row, b.row, base.height, styleChars(style).v) ELSE <<>>)
  \o (IF a.col # b.col /\ a.row # b.row
      THEN <<Write(a.row, b.col, styleElbow(style, a, b))>> ELSE <<>>)
  \o (IF arrow THEN <<Write(b.row, b.col, arrowHead(a, b, style))>> ELSE <<>>)

drawOrthogonal(base, a, b, style, arrow, ref) ==
  [base EXCEPT !.lines =
     NewLines(ref, writeCells(cloneLines(base.lines.rows, base.height),
                              drawOrthogonalWrites(base, a, b, style, arrow),
                              base.width))]

\* for (const p of points) setCharInLines(lines, p.row, p.col, drawChar, width)
drawFreeWrites(points, drawChar) ==
  [i \in 1..Len(points) |-> Write(points[i].row, points[i].col, drawChar)]

drawFree(base, points, drawChar, ref) ==
  [base EXCEPT !.lines =
     NewLines(ref, writeCells(cloneLines(base.lines.rows, base.height),
                              drawFreeWrites(points, drawChar), base.width))]

\* The calls of setCharInLines made by the one of drawRect, drawOrthogonal
\* and drawFree that the tool of the gesture selects.
drawGestureWrites(g, drawStyle) ==
  IF g.tool = "rect" THEN drawRectWrites(g.base, g.start, g.current, drawStyle)
  ELSE IF g.tool = "line"
  THEN drawOrthogonalWrites(g.base, g.start, g.current, drawStyle, FALSE)
  ELSE IF g.tool = "arrow"
  THEN drawOrthogonalWrites(g.base, g.start, g.current, drawStyle, TRUE)
  ELSE drawFreeWrites(g.points, g.drawChar)

\* The four "if (g.tool === ...) next = ..." of applyAndCommitGesture and of
\* applyDraftFromGesture: each draw clones the lines of g.base and writes
\* on the clone, whose identity is ref.
drawGesture(g, drawStyle, ref) ==
  IF g.tool \notin {"rect", "line", "arrow", "free"} THEN g.base
  ELSE [g.base EXCEPT !.lines =
          NewLines(ref, writeCells(cloneLines(g.base.lines.rows, g.base.height),
                                   drawGestureWrites(g, drawStyle), g.base.width))]

\* setDraftBuffer({ width, height, lines })
draftOf(buffer) ==
  [null |-> FALSE, width |-> buffer.width, height |-> buffer.height,
   rows |-> buffer.lines.rows]

applyDraftFromGesture(u, g) ==
  [u EXCEPT !.draftBuffer = draftOf(drawGesture(g, u.drawStyle, 0))]

\* commitBuffer gets a new object around the lines array the draw returned.
applyAndCommitGesture(a, g) ==
  AppState(commitBuffer(a.s, drawGesture(g, a.u.drawStyle, NextFree(UsedRefs(a.s), 1))),
           [a.u EXCEPT !.draftBuffer = NullBuffer])

clearSelection(u) ==
  [u EXCEPT !.selectGestureRef = NullSelectGesture, !.selectionAnchorRef = NullAnchor,
            !.isSelecting = FALSE, !.selectionRect = NullRect]

cancelDrawing(u) ==
  clearSelection([u EXCEPT !.gestureRef = NullGesture, !.draftBuffer = NullBuffer,
                           !.isDrawing = FALSE])

cancelSelectGesture(u) ==
  IF u.selectGestureRef.null THEN u
  ELSE [u EXCEPT !.selectGestureRef = NullSelectGesture,
                 !.selectionAnchorRef = NullAnchor, !.isSelecting = FALSE]

cancelDrawGesture(u) ==
  IF u.gestureRef.null THEN u
  ELSE [u EXCEPT !.gestureRef = NullGesture, !.draftBuffer = NullBuffer,
                 !.isDrawing = FALSE]

cancelPointerGesture(a) == AppState(a.s, cancelDrawGesture(cancelSelectGesture(a.u)))

\* A toolbar button: cancelDrawing(), clearSelection() (not for the select
\* tool, whose button leaves that to cancelDrawing), setTool(tool).
toolButton(a, tool) ==
  AppState(a.s, [(IF tool = "select" THEN cancelDrawing(a.u)
                  ELSE clearSelection(cancelDrawing(a.u))) EXCEPT !.tool = tool])

\* App's snapCursorToCellStart, on the active buffer of the last render.
snapCursorToCellStart(s, pos) ==
  LET at == snapCursorToCellStartInBuffer(getBuffer(s), pos)
  IN CellCursor(at.row, at.col)

\* The gesture object beginGesture makes; base.lines is a copy of the
\* active buffer's array.
newGesture(a, start) ==
  [null |-> FALSE, tool |-> a.u.tool, start |-> start, last |-> start,
   current |-> start,
   base |-> [width |-> getBuffer(a.s).width, height |-> getBuffer(a.s).height,
             lines |-> NewLines(0, getBuffer(a.s).lines.rows)],
   drawChar |-> a.u.freeChar,
   points |-> IF a.u.tool = "free" THEN <<start>> ELSE <<>>]

startDrawing(u, g) ==
  applyDraftFromGesture([u EXCEPT !.gestureRef = g, !.isDrawing = TRUE], g)

\* beginGesture for a press of the main button on the canvas cell start
beginGesture(a, start) ==
  IF a.u.tool = "text"
  THEN (IF a.u.isDrawing \/ a.u.isSelecting THEN a
        ELSE AppState(setCursor(a.s, snapCursorToCellStart(a.s, start)), a.u))
  ELSE IF a.u.tool = "select"
  THEN AppState(setCursor(a.s, snapCursorToCellStart(a.s, start)),
                [a.u EXCEPT !.selectGestureRef =
                              [null |-> FALSE, start |-> start, current |-> start],
                            !.selectionAnchorRef =
                              [null |-> FALSE, start |-> start, end |-> start],
                            !.isSelecting = TRUE,
                            !.selectionRect = normalizeRect(start, start)])
  ELSE AppState(a.s, startDrawing(a.u, newGesture(a, start)))

\* g.current = cell, and for the free tool the cells of the segment to it
movedGesture(g, cell) ==
  IF g.tool = "free"
  THEN [g EXCEPT !.current = cell, !.last = cell,
                 !.points = @ \o Tail(bresenham(g.last, cell))]
  ELSE [g EXCEPT !.current = cell]

redraft(u, g) == applyDraftFromGesture([u EXCEPT !.gestureRef = g], g)

moveGesture(a, cell) ==
  IF ~a.u.selectGestureRef.null
  THEN AppState(a.s,
         [a.u EXCEPT !.selectGestureRef.current = cell,
                     !.selectionAnchorRef =
                       [null |-> FALSE, start |-> a.u.selectGestureRef.start, end |-> cell],
                     !.selectionRect = normalizeRect(a.u.selectGestureRef.start, cell)])
  ELSE IF a.u.gestureRef.null THEN a
  ELSE AppState(a.s, redraft(a.u, movedGesture(a.u.gestureRef, cell)))

\* the finally block of endGesture
gestureEnded(a) ==
  AppState(a.s, [a.u EXCEPT !.gestureRef = NullGesture, !.draftBuffer = NullBuffer,
                            !.isDrawing = FALSE])

endGesture(a) ==
  IF ~a.u.selectGestureRef.null
  THEN AppState(a.s, [a.u EXCEPT !.selectGestureRef = NullSelectGesture,
                                 !.isSelecting = FALSE])
  ELSE IF a.u.gestureRef.null THEN a
  ELSE gestureEnded(applyAndCommitGesture(a, a.u.gestureRef))

\* ------------------------------------- App: clipboard commands and keys
Take(seq, n) == SubSeq(seq, 1, Min(n, Len(seq)))

\* nextHistory.slice(0, 20)
ClipboardHistoryLimit == 20

\* the updater copySelection hands to setClipboard, kept to no limit
setClipboard_Unbounded(s, clip) ==
  [current |-> clip,
   history |-> IF s.current.null THEN s.history ELSE <<s.current>> \o s.history]

\* the updater copySelection hands to setClipboard
setClipboard(s, clip) ==
  [current |-> clip,
   history |-> Take(IF s.current.null THEN s.history ELSE <<s.current>> \o s.history,
                    ClipboardHistoryLimit)]

\* selectionAnchorRef.current?.start
originCellOf(anchor) ==
  IF anchor.null THEN NullCell
  ELSE [null |-> FALSE, row |-> anchor.start.row, col |-> anchor.start.col]

\* The block copySelection takes from the buffer and the selection of the
\* render it was made in; null when it returns before setClipboard.
copiedClip(buffer, selectionRect, anchor) ==
  IF selectionRect.null THEN NullClip
  ELSE copyRectFromBuffer(buffer, selectionRect, originCellOf(anchor))

\* copySelection up to its await
copySelection(a) ==
  IF copiedClip(getBuffer(a.s), a.u.selectionRect, a.u.selectionAnchorRef).null THEN a
  ELSE AppState(a.s,
         [a.u EXCEPT !.clipboard =
            setClipboard(@, copiedClip(getBuffer(a.s), a.u.selectionRect,
                                       a.u.selectionAnchorRef))])

\* deleteSelection of the render whose active buffer and selection were
\* buffer and selectionRect
deleteSelection(a, buffer, selectionRect) ==
  IF selectionRect.null THEN a
  ELSE AppState(commitBuffer(a.s, applyRectFill(buffer, selectionRect, SPACE,
                                                NextFree(UsedRefs(a.s), 1))),
                clearSelection(a.u))

\* What cutSelection's "await copySelection()" leaves to run after the
\* write: deleteSelection of the render cutSelection was made in.
awaitingCut(a) == [buffer |-> getBuffer(a.s), selectionRect |-> a.u.selectionRect]

\* cutSelection up to where "await copySelection()" suspends it
cutSelection(a) ==
  AppState(a.s, [copySelection(a).u EXCEPT !.awaiting = Append(@, awaitingCut(a))])

RemoveAt(seq, i) == SubSeq(seq, 1, i - 1) \o SubSeq(seq, i + 1, Len(seq))

\* The promise the i-th awaiting cut waits for settles (the system
\* clipboard is written, or copySelection had returned early):
\* cutSelection goes on with deleteSelection().
cutResumes(a, i) ==
  deleteSelection(AppState(a.s, [a.u EXCEPT !.awaiting = RemoveAt(@, i)]),
                  a.u.awaiting[i].buffer, a.u.awaiting[i].selectionRect)

pasteClipboard(a) ==
  AppState(commitBuffer(a.s,
             pasteRectIntoBuffer(getBuffer(a.s),
                                 IF a.s.cursor.null THEN [row |-> 0, col |-> 0]
                                 ELSE [row |-> a.s.cursor.row, col |-> a.s.cursor.col],
                                 a.u.clipboard.current, NextFree(UsedRefs(a.s), 1))),
           clearSelection(a.u))

\* A key event: e.key and whether Ctrl or Meta is held.
Key(key, ctrlOrMeta) == [key |-> key, ctrlOrMeta |-> ctrlOrMeta]

\* The window keydown handler of the shortcuts, with no find or replace
\* bar open.
shortcutKey(a, e) ==
  IF ~a.u.gestureRef.null \/ ~a.u.selectGestureRef.null
  THEN (IF ~a.u.gestureRef.null THEN AppState(a.s, cancelDrawing(a.u)) ELSE a)
  ELSE IF ~e.ctrlOrMeta THEN a
  ELSE IF e.key = "c" THEN (IF a.u.tool = "select" THEN copySelection(a) ELSE a)
  ELSE IF e.key = "x" THEN (IF a.u.tool = "select" THEN cutSelection(a) ELSE a)
  ELSE IF e.key = "v" THEN (IF a.u.tool = "select" THEN pasteClipboard(a) ELSE a)
  ELSE IF e.key = "z" THEN AppState(undo(a.s), a.u)
  ELSE a

\* The window keydown handler of Delete and Backspace, made in the render
\* before the event (state a0); it runs after the shortcut handler.
deleteKey(a, a0, e) ==
  IF a0.u.tool # "select" \/ a0.u.selectionRect.null THEN a
  ELSE IF e.key = "Delete" \/ e.key = "Backspace"
  THEN deleteSelection(a, getBuffer(a0.s), a0.u.selectionRect)
  ELSE a

keyDown(a, e) == deleteKey(shortcutKey(a, e), a, e)

\* ------------------------------------------- App: the component at work
\* The events of one run of the component.
MaxEvents == 3

\* The handler of one event runs to its end: the store and the component
\* are as it leaves them.
DoApp(op, a) ==
  /\ steps < MaxEvents
  /\ \E after \in {a} :
       /\ width' = after.s.width
       /\ height' = after.s.height
       /\ layers' = after.s.layers
       /\ activeLayerId' = after.s.activeLayerId
       /\ cursor' = after.s.cursor
       /\ past' = after.s.past
       /\ future' = after.s.future
       /\ ui' = after.u
  /\ lastOp' = op
  /\ steps' = steps + 1
  /\ UNCHANGED <<saved, call, ret>>

ToolModes == {"text", "select", "rect", "line", "arrow", "free"}

\* The keys pressed: Escape, Delete, and Ctrl with c, x, v or z.
Keys ==
  {Key("Escape", FALSE), Key("Delete", FALSE)}
  \cup {Key(k, TRUE) : k \in {"c", "x", "v", "z"}}

ToolButton == \E tool \in ToolModes : DoApp("toolButton", toolButton(Ap, tool))

\* onPointerDown over the canvas cell cellFromPointerEvent gives
PointerDown ==
  \E cell \in CellsOf(getBuffer(St).width, getBuffer(St).height) :
    DoApp("pointerDown", beginGesture(Ap, cell))

\* onPointerMove; with no gesture in progress moveGesture returns at once
PointerMove ==
  /\ ~ui.selectGestureRef.null \/ ~ui.gestureRef.null
  /\ \E cell \in CellsOf(getBuffer(St).width, getBuffer(St).height) :
       DoApp("pointerMove", moveGesture(Ap, cell))

\* onPointerUp; with no gesture in progress endGesture returns at once
PointerUp ==
  /\ ~ui.selectGestureRef.null \/ ~ui.gestureRef.null
  /\ DoApp("pointerUp", endGesture(Ap))

\* onPointerCancel
PointerCancel ==
  /\ ~ui.selectGestureRef.null \/ ~ui.gestureRef.null
  /\ DoApp("pointerCancel", cancelPointerGesture(Ap))

KeyDown == \E e \in Keys : DoApp(e.key, keyDown(Ap, e))

\* An awaiting cut is resumed.
ClipboardWritten ==
  \E i \in DOMAIN ui.awaiting : DoApp("cutResumes", cutResumes(Ap, i))

\* The layer panel: its add button and a click on a layer's row.
AddLayerButton ==
  /\ Len(layers) < MaxLayers
  /\ DoApp("addLayer", AppState(addLayer(St, 1001), ui))

LayerRow ==
  \E id \in LayerIds(layers) : DoApp("selectLayer", AppState(selectLayer(St, id), ui))

StartApp(a) ==
  \E session \in {a} :
    /\ StoreStart(session.s)
    /\ saved = NoFile
    /\ call = NoCall
    /\ ret = NoRet
    /\ ui = session.u

\* A small canvas with a narrow and a wide glyph, the component as first
\* rendered.
Opened ==
  AppState(setBufferFromText(newBuffer(InitialState, SmallSize[1], SmallSize[2]),
                             <<LatinA, Hangul, LF, LatinB>>),
           InitialUi)

\* The select tool dragged from the first cell to cell.
dragSelect(a, cell) ==
  CHOOSE released \in
    {endGesture(moved) : moved \in
      {moveGesture(pressed, cell) : pressed \in
        {beginGesture(before, [row |-> 0, col |-> 0]) : before \in {a}}}} : TRUE

Selected ==
  CHOOSE selected \in
    {dragSelect(toolButton(opened, "select"), [row |-> 0, col |-> 1])
       : opened \in {Opened}} : TRUE

\* The k-th cell of the small canvas, in row-major order and cyclically.
CellNo(k) == [row |-> (k \div SmallSize[1]) % SmallSize[2], col |-> k % SmallSize[1]]

\* The block Ctrl+C takes after a drag from the first cell to the k-th.
CopyNo(a, k) ==
  copyRectFromBuffer(getBuffer(a.s), normalizeRect(CellNo(0), CellNo(k)),
                     [null |-> FALSE, row |-> 0, col |-> 0])

\* The session after n drags of the select tool from the first cell, to
\* the cells 1 to n, each copied with Ctrl+C: its clipboard is what
\* setClipboard made of the n blocks, and the last selection stands.
AfterCopies(a, n) ==
  [a EXCEPT !.u.clipboard =
              [current |-> CopyNo(a, n),
               history |-> [i \in 1..Min(n - 1, ClipboardHistoryLimit) |->
                              CopyNo(a, n - i)]],
            !.u.selectionRect = normalizeRect(CellNo(0), CellNo(n)),
            !.u.selectionAnchorRef =
              [null |-> FALSE, start |-> CellNo(0), end |-> CellNo(n)],
            !.s.cursor = CellCursor(0, 0)]

\* A session whose clipboard history is one short of its limit.
ManyCopies == AfterCopies(Selected, ClipboardHistoryLimit)

\* The selection cut with Ctrl+X, the system clipboard not yet written.
Cutting == cutSelection(Selected)

\* The component as first rendered; with a selection made; with that
\* selection cut and the cut awaiting; with many blocks copied.
InitUi ==
  \E selected \in {Selected} :
    \E a \in {Opened, selected, cutSelection(selected),
               AfterCopies(selected, ClipboardHistoryLimit)} : StartApp(a)

NextUi ==
  \/ ToolButton
  \/ PointerDown
  \/ PointerMove
  \/ PointerUp
  \/ PointerCancel
  \/ KeyDown
  \/ ClipboardWritten
  \/ AddLayerButton
  \/ LayerRow

SpecUi == InitUi /\ [][NextUi]_vars

\* ---------------------------------------------------------------- C23
\* Rectangles whose right edge is left of their left edge, or whose bottom
\* is above their top.
DegenerateRects ==
  {[null |-> FALSE, top |-> 0, left |-> 1, bottom |-> 0, right |-> 0],
   [null |-> FALSE, top |-> 1, left |-> 0, bottom |-> 0, right |-> 1]}

\* The history after a copy that found the clipboard s: the entry that was
\* current, then the entries of s, the oldest dropped beyond the limit.
HistoryAfterCopy(s) ==
  Take((IF s.current.null THEN <<>> ELSE <<s.current>>) \o s.history,
       ClipboardHistoryLimit)

\* Ctrl+C or Ctrl+X is handled as a copy: the select tool is active and no
\* gesture is in progress.
CopyKey(op) ==
  /\ op \in {"c", "x"}
  /\ ui.tool = "select"
  /\ ui.gestureRef.null /\ ui.selectGestureRef.null

\* C23: the clipboard history never holds more than 20 entries; a copy of
\* a selection makes the copied block the current entry and puts the entry
\* that was current at the head of the history, most recent first, dropping
\* the oldest beyond 20; a copy with no selection, a copy of a degenerate
\* rectangle and every other event leave current and history as they were.
C23_ClipboardHistory ==
  [][/\ Len(ui'.clipboard.history) <= ClipboardHistoryLimit
     /\ IF CopyKey(lastOp') /\ ~ui.selectionRect.null
        THEN /\ ui'.clipboard.current =
                  copyRectFromBuffer(getBuffer(St), ui.selectionRect,
                                     originCellOf(ui.selectionAnchorRef))
             /\ ~ui'.clipboard.current.null
             /\ ui'.clipboard.history = HistoryAfterCopy(ui.clipboard)
        ELSE ui'.clipboard = ui.clipboard
     /\ \A rect \in DegenerateRects :
          copySelection(AppState(St, [ui EXCEPT !.selectionRect = rect])).u.clipboard
            = ui.clipboard]_vars

\* Two copies in a row at the limit: the history is full, its head is the
\* block of the first copy and the oldest entry has been dropped.
C23_Witness ==
  /\ lastOp = "c"
  /\ steps = 2
  /\ Len(ui.clipboard.history) = ClipboardHistoryLimit
  /\ ui.clipboard.history[1] = ui.clipboard.current
  /\ ui.clipboard.history[2] # ui.clipboard.history[1]

\* ---------------------------------------------------------------- C24
\* The pointer is released on the cell where a rectangle, line or arrow
\* gesture began.
DegenerateGesture ==
  /\ ~ui.gestureRef.null
  /\ ui.selectGestureRef.null
  /\ ui.gestureRef.tool \in {"rect", "line", "arrow"}
  /\ ui.gestureRef.current = ui.gestureRef.start

\* C24: a rectangle, line or arrow gesture whose pointer-up cell is its
\* pointer-down cell changes no layer's content and pushes no history
\* entry.
C24_DegenerateRejected ==
  [][lastOp' = "pointerUp" /\ DegenerateGesture
       => StripLayers(layers') = StripLayers(layers) /\ past' = past]_vars

\* ---------------------------------------------------------------- C25
\* What ends a drawing gesture without committing it: pointer-cancel, a key
\* or a toolbar button.
EndsGesture(op) == op \in {"pointerCancel", "toolButton"} \cup {e.key : e \in Keys}

\* C25: while a drawing gesture is in progress, no event but its pointer-up
\* (and none of the layer panel) changes layers, past or future; pointer-
\* cancel, a key and a tool switch drop the gesture and its draft; its
\* pointer-up pushes exactly one history entry.
C25_GestureKeepsStore ==
  [][~ui.gestureRef.null /\ ui.selectGestureRef.null =>
       /\ lastOp' \notin {"pointerUp", "addLayer", "selectLayer"}
            => layers' = layers /\ past' = past /\ future' = future
       /\ EndsGesture(lastOp') => ui'.gestureRef.null /\ ui'.draftBuffer.null
       /\ lastOp' = "pointerUp" => Len(past') = Len(past) + 1 /\ ui'.draftBuffer.null]_vars

\* ---------------------------------------------------------------- C26
\* The events of the component that the selection does not outlive: the
\* Escape key, a toolbar button, and a cut, paste or delete that commits
\* (Ctrl+V and Delete with the select tool and no gesture in progress, the
\* resumption of a cut).
ClearsSelection(op) ==
  \/ op \in {"Escape", "toolButton", "cutResumes"}
  \/ /\ op \in {"v", "Delete"}
     /\ ui.tool = "select"
     /\ ui.gestureRef.null /\ ui.selectGestureRef.null

\* C26: a committed selection rectangle (one that no select gesture is
\* still dragging) is null after Escape, after a tool change and after a
\* cut, paste or delete commit.
C26_SelectionCleared ==
  [][~ui.selectionRect.null /\ ui.selectGestureRef.null /\ ClearsSelection(lastOp')
       => ui'.selectionRect.null]_vars

\* ---------------------------------------------------------------- C27
\* The store after the step.
StAfter == StoreState(width', height', layers', activeLayerId', cursor', past', future')

\* The lines of buffer with the cells of rect blanked.
Blanked(buffer, rect) == applyRectFill(buffer, rect, SPACE, 0).lines.rows

\* C27: when an awaiting cut is resumed, whatever was committed or
\* selected while it waited, the active layer afterwards holds what it held
\* when the blanking ran, with the cells of the cut's selection blanked.
C27_CutBlanksCurrent ==
  [][lastOp' = "cutResumes" =>
       \E i \in DOMAIN ui.awaiting :
         /\ ui'.awaiting = RemoveAt(ui.awaiting, i)
         /\ ~ui.awaiting[i].selectionRect.null
              => getBuffer(StAfter).lines.rows
                   = Blanked(getBuffer(St), ui.awaiting[i].selectionRect)]_vars

\* ------------------------------------------------- App: find and replace
\* A JavaScript string is held as its grapheme sequence; its UTF-16 code
\* units are those of its code points, an astral code point being a pair of
\* surrogates.
RECURSIVE codeUnits(_)
codeUnits(grapheme) ==
  IF grapheme = <<>> THEN <<>>
  ELSE LET cp == Head(grapheme) IN
    (IF cp < 65536 THEN <<cp>>
     ELSE <<55296 + ((cp - 65536) \div 1024), 56320 + ((cp - 65536) % 1024)>>)
    \o codeUnits(Tail(grapheme))

RECURSIVE unitsOf(_)
unitsOf(text) ==
  IF text = <<>> THEN <<>> ELSE codeUnits(Head(text)) \o unitsOf(Tail(text))

\* text.length
stringLength(text) == Len(unitsOf(text))

\* hay.indexOf(needle, from) on code units, for a needle that is not empty;
\* positions are 0-based
RECURSIVE indexOfUnits(_, _, _)
indexOfUnits(hay, needle, from) ==
  IF from + Len(needle) > Len(hay) THEN -1
  ELSE IF SubSeq(hay, from + 1, from + Len(needle)) = needle THEN from
  ELSE indexOfUnits(hay, needle, from + 1)

indexOf(text, q, from) == indexOfUnits(unitsOf(text), unitsOf(q), from)

\* text.slice(0, n): the graphemes that end within the first n code units
\* and, where the cut falls inside a grapheme, the code units of it that are
\* left, which segment as one grapheme
RECURSIVE sliceTo(_, _)
sliceTo(text, n) ==
  IF n <= 0 \/ text = <<>> THEN <<>>
  ELSE LET units == codeUnits(Head(text)) IN
    IF Len(units) <= n THEN <<Head(text)>> \o sliceTo(Tail(text), n - Len(units))
    ELSE <<SubSeq(units, 1, n)>>

\* the inner loop of computeMatches over one row, from index idx
RECURSIVE rowMatches(_, _, _, _)
rowMatches(displayLine, q, row, idx) ==
  LET found == indexOf(displayLine, q, idx) IN
    IF found = -1 THEN <<>>
    ELSE <<[row |-> row, col |-> Len(toCells(sliceTo(displayLine, found)))]>>
         \o rowMatches(displayLine, q, row, found + Max(1, stringLength(q)))

RECURSIVE matchesFrom(_, _, _)
matchesFrom(buffer, q, row) ==
  IF ~(row < buffer.height) THEN <<>>
  ELSE rowMatches(toDisplayText(LineOr(buffer.lines.rows, row)), q, row, 0)
       \o matchesFrom(buffer, q, row + 1)

computeMatches(buffer, query) ==
  IF query = <<>> THEN <<>> ELSE matchesFrom(buffer, query, 0)

\* The widest row searched and the longest query.
MaxFindWidth == 3
MaxQueryLen == 2

\* 'a' followed by a combining acute accent: one grapheme of two code points
LatinAAcute == <<97, 769>>
CombiningAcute == <<769>>

\* Rows as typing and pasting leave them: every wide glyph is followed by
\* its continuation cell.
FindRows ==
  {toInternalText(t) :
     t \in {x \in UNION {[1..k -> {LatinA, Hangul, LatinAAcute}] : k \in 0..MaxFindWidth} :
              cellLength(toInternalText(x)) <= MaxFindWidth}}

FindQueries ==
  UNION {[1..k -> {LatinA, Hangul, SPACE, CombiningAcute}] : k \in 0..MaxQueryLen}

ApplyComputeMatches ==
  /\ call.fn = "computeMatches"
  /\ ret.fn = "none"
  /\ Return([fn |-> "computeMatches",
             matches |-> computeMatches(call.buffer, call.query)])

\* A query typed into the find box over a canvas of one or two rows.
InitMatches ==
  \E h \in 1..2 :
    \E rows \in [1..h -> FindRows] :
      \E query \in FindQueries :
        StartCall([fn |-> "computeMatches",
                   buffer |-> [width |-> MaxFindWidth, height |-> h,
                               lines |-> NewLines(1, rows)],
                   query |-> query])

NextMatches == ApplyComputeMatches

SpecMatches == InitMatches /\ [][NextMatches]_vars

\* ------------------------------------------------------------------ C28
\* The code units of the external text of row m.row at which the cell of
\* column m.col starts.
UnitOffset(buffer, m) ==
  stringLength(SubSeq(toDisplayText(LineOr(buffer.lines.rows, m.row)), 1, m.col))

\* The query stands in the row's external text at the code units of match m.
OccursAt(buffer, query, m) ==
  indexOf(toDisplayText(LineOr(buffer.lines.rows, m.row)), query,
          UnitOffset(buffer, m)) = UnitOffset(buffer, m)

\* The cell of match m as the external text shows it.
ShownCell(buffer, m) ==
  toDisplayText(<<CellAt(toCells(LineOr(buffer.lines.rows, m.row)), m.col)>>)[1]

RowMajorBefore(m, n) == m.row < n.row \/ (m.row = n.row /\ m.col < n.col)

\* C28: computeMatches returns its matches in row-major order; every match
\* is an occurrence of the query in its row's external text, reported at the
\* cell column where the occurrence starts, and the cell at that column is
\* the first grapheme of the query; an empty query yields no matches.
C28_MatchesAtCells ==
  (ret.fn = "computeMatches") =>
    /\ call.query = <<>> => ret.matches = <<>>
    /\ \A i \in DOMAIN ret.matches :
         /\ \A j \in DOMAIN ret.matches :
              i < j => RowMajorBefore(ret.matches[i], ret.matches[j])
         /\ ret.matches[i].col < Len(LineOr(call.buffer.lines.rows, ret.matches[i].row))
         /\ OccursAt(call.buffer, call.query, ret.matches[i])
         /\ ShownCell(call.buffer, ret.matches[i]) = call.query[1]

\* ----------------------------------------------------- App: replace
\* replaceLen < findLen ? replaceQuery + ' '.repeat(findLen - replaceLen)
\*                      : replaceQuery
paddedReplace(u) ==
  IF cellLength(u.replaceQuery) < cellLength(u.findQuery)
  THEN u.replaceQuery \o Repeat(SPACE, cellLength(u.findQuery) - cellLength(u.replaceQuery))
  ELSE u.replaceQuery

\* cursor ?? { row: 0, col: 0 }
cursorOrOrigin(s) ==
  IF s.cursor.null THEN [row |-> 0, col |-> 0]
  ELSE [row |-> s.cursor.row, col |-> s.cursor.col]

\* matches.findIndex(...) as a 1-based index, 0 for -1
firstIndex(matches, from, strict) ==
  LET hits == {i \in DOMAIN matches :
                 \/ matches[i].row > from.row
                 \/ /\ matches[i].row = from.row
                    /\ IF strict THEN matches[i].col > from.col
                       ELSE matches[i].col >= from.col}
  IN IF hits = {} THEN 0 ELSE CHOOSE i \in hits : \A j \in hits : i <= j

\* the backward loop of findPrev and replacePrev, 0 for -1
lastIndex(matches, from, strict) ==
  LET hits == {i \in DOMAIN matches :
                 \/ matches[i].row < from.row
                 \/ /\ matches[i].row = from.row
                    /\ IF strict THEN matches[i].col < from.col
                       ELSE matches[i].col <= from.col}
  IN IF hits = {} THEN 0 ELSE CHOOSE i \in hits : \A j \in hits : i >= j

\* the match at or after from, whatever strict says
nextMatch_AtOrAfter(matches, from, strict) ==
  matches[IF firstIndex(matches, from, FALSE) = 0 THEN 1
          ELSE firstIndex(matches, from, FALSE)]

nextMatch(matches, from, strict) ==
  matches[IF firstIndex(matches, from, strict) = 0 THEN 1
          ELSE firstIndex(matches, from, strict)]

prevMatch(matches, from, strict) ==
  matches[IF lastIndex(matches, from, strict) = 0 THEN Len(matches)
          ELSE lastIndex(matches, from, strict)]

\* the end of findNext and findPrev once the match is chosen
showMatch(a, match) ==
  AppState(setCursor(a.s, CellCursor(match.row, match.col)),
           [cancelDrawing(a.u) EXCEPT !.tool = "text",
                                      !.findMatch = CellCursor(match.row, match.col)])

\* findNext and findPrev of the render whose active buffer was buffer
findNext(a, buffer, from) ==
  IF computeMatches(buffer, a.u.findQuery) = <<>> THEN a
  ELSE showMatch(a, nextMatch(computeMatches(buffer, a.u.findQuery), from, TRUE))

findPrev(a, buffer, from) ==
  IF computeMatches(buffer, a.u.findQuery) = <<>> THEN a
  ELSE showMatch(a, prevMatch(computeMatches(buffer, a.u.findQuery), from, TRUE))

\* commitBuffer, setCursor and setDraftBuffer(null) of applyOverwriteAt
overwritten(a, result) ==
  AppState(setCursor(commitBuffer(a.s, result.next),
                     CellCursor(result.cursor.row, result.cursor.col)),
           [a.u EXCEPT !.draftBuffer = NullBuffer])

applyOverwriteAt(a, at, text) ==
  overwritten(a, overwriteTextIntoBuffer(
                   getBuffer(a.s), snapCursorToCellStartInBuffer(getBuffer(a.s), at),
                   text, NextFree(UsedRefs(a.s), 1)))

\* the match replaceNext ("next") and replacePrev ("prev") choose
chosenMatch(a, dir) ==
  IF dir = "next"
  THEN nextMatch(computeMatches(getBuffer(a.s), a.u.findQuery), cursorOrOrigin(a.s), FALSE)
  ELSE prevMatch(computeMatches(getBuffer(a.s), a.u.findQuery), cursorOrOrigin(a.s), FALSE)

\* the microtask queued by replaceNext and replacePrev: the findNext and
\* findPrev of the render that created the handler, a being that render
findAgain(after, a, dir) ==
  IF dir = "next" THEN findNext(after, getBuffer(a.s), cursorOrOrigin(after.s))
  ELSE findPrev(after, getBuffer(a.s), chosenMatch(a, dir))

\* replaceNext and replacePrev
replaceOne(a, dir) ==
  IF computeMatches(getBuffer(a.s), a.u.findQuery) = <<>> THEN a
  ELSE findAgain(applyOverwriteAt(a, chosenMatch(a, dir), paddedReplace(a.u)), a, dir)

\* for (i = matches.length - 1; i >= 0; i -= 1) next = overwriteTextIntoBuffer(...).next
RECURSIVE overwriteMatches(_, _, _, _, _)
overwriteMatches(next, matches, i, text, ref) ==
  IF i < 1 THEN next
  ELSE overwriteMatches(
         overwriteTextIntoBuffer(next, snapCursorToCellStartInBuffer(next, matches[i]),
                                 text, ref).next,
         matches, i - 1, text, ref)

replaceAll(a) ==
  IF computeMatches(getBuffer(a.s), a.u.findQuery) = <<>> THEN a
  ELSE AppState(commitBuffer(a.s,
                  overwriteMatches(getBuffer(a.s),
                                   computeMatches(getBuffer(a.s), a.u.findQuery),
                                   Len(computeMatches(getBuffer(a.s), a.u.findQuery)),
                                   paddedReplace(a.u), NextFree(UsedRefs(a.s), 1))),
                a.u)

\* The replace buttons pressed in one session.
MaxReplaces == 2

ReplaceButton ==
  /\ steps < MaxReplaces
  /\ \E dir \in {"next", "prev"} :
       DoApp(IF dir = "next" THEN "replaceNext" ELSE "replacePrev", replaceOne(Ap, dir))

ReplaceAllButton ==
  /\ steps < MaxReplaces
  /\ DoApp("replaceAll", replaceAll(Ap))

\* The rows of a file of h lines over a narrow and a wide glyph.
ReplaceLines ==
  {x \in UNION {[1..k -> {LatinA, Hangul}] : k \in 0..MaxFindWidth} :
     cellLength(toInternalText(x)) <= MaxFindWidth}

\* The canvas after a file of one or two lines was opened.
TextCanvas(first, rest) ==
  setBufferFromText(newBuffer(InitialState, MaxFindWidth, Len(rest) + 1),
                    first \o (IF rest = <<>> THEN <<>> ELSE <<LF>> \o rest[1]))

\* A canvas of 'a' with an ASCII box drawn along its edges.
Lettered ==
  setBufferFromText(newBuffer(InitialState, 3, 3),
                    <<LatinA, LatinA, LatinA, LF, LatinA, LatinA, LatinA, LF,
                      LatinA, LatinA, LatinA>>)

BoxedCanvas ==
  commitBuffer(Lettered,
               drawRect(getBuffer(Lettered), [row |-> 0, col |-> 0],
                        [row |-> 2, col |-> 2], "ascii", NextFree(UsedRefs(Lettered), 1)))

ReplaceCanvases ==
  {TextCanvas(first, rest) :
     first \in ReplaceLines, rest \in {<<>>} \cup {<<x>> : x \in ReplaceLines}}
  \cup {BoxedCanvas}

ReplaceQueries ==
  UNION {[1..k -> {LatinA, Hangul, SPACE, Pipe}] : k \in 0..MaxQueryLen}

Replacements == UNION {[1..k -> {LatinB, Hangul}] : k \in 0..MaxQueryLen}

\* The find and replace boxes filled in over an opened canvas, the cursor
\* not yet placed or placed on the second cell.
InitReplace ==
  \E s \in ReplaceCanvases :
    \E c \in {NullCursor, CellCursor(0, 1)} :
      \E q \in ReplaceQueries :
        \E r \in Replacements :
          StartApp(AppState(setCursor(s, c),
                            [InitialUi EXCEPT !.findQuery = q, !.replaceQuery = r]))

NextReplace == ReplaceButton \/ ReplaceAllButton

SpecReplace == InitReplace /\ [][NextReplace]_vars

\* ------------------------------------------------------------------ C29
ReplaceOps == {"replaceAll", "replaceNext", "replacePrev"}

\* The matches a press of the button op replaces in session a.
ReplacedMatches(a, op) ==
  IF op = "replaceAll"
  THEN {computeMatches(getBuffer(a.s), a.u.findQuery)[i] :
          i \in DOMAIN computeMatches(getBuffer(a.s), a.u.findQuery)}
  ELSE {chosenMatch(a, IF op = "replaceNext" THEN "next" ELSE "prev")}

\* The cells of the span of match m: as many as the query has.
InSpan(m, row, col, findLen) ==
  row = m.row /\ col >= m.col /\ col < m.col + findLen

\* The stored cell, a row's missing cells being blank.
StoredCell(buffer, row, col) ==
  IF col < Len(LineOr(buffer.lines.rows, row))
  THEN LineOr(buffer.lines.rows, row)[col + 1] ELSE SPACE

\* C29: after replaceAll, replaceNext or replacePrev with a replacement
\* whose cell length is at most the query's, the cells of every replaced
\* match span hold the replacement right-padded with spaces, and the cells
\* outside the replaced spans are unchanged.
C29_NoFragments ==
  [][(/\ lastOp' \in ReplaceOps
      /\ computeMatches(getBuffer(St), ui.findQuery) # <<>>
      /\ cellLength(ui.replaceQuery) <= cellLength(ui.findQuery))
     => \A row \in 0..(height - 1), col \in 0..(width - 1) :
          IF \E m \in ReplacedMatches(Ap, lastOp') :
               InSpan(m, row, col, cellLength(ui.findQuery))
          THEN \E m \in ReplacedMatches(Ap, lastOp') :
                 /\ InSpan(m, row, col, cellLength(ui.findQuery))
                 /\ StoredCell(getBuffer(StAfter), row, col)
                      = toInternalText(paddedReplace(ui))[col - m.col + 1]
          ELSE StoredCell(getBuffer(StAfter), row, col)
                 = StoredCell(getBuffer(St), row, col)]_vars

\* ------------------------------------------------------------------ C30
\* The largest small canvas a figure is inserted into and the largest
\* figure.
MaxFigureBase == 2
MaxFigure == 2

ApplyInsertBlankFigure ==
  /\ call.fn = "insertBlankFigure"
  /\ ret.fn = "none"
  /\ LET result == insertBlankFigure(call.base, call.at, call.figSize)
     IN Return([fn |-> "insertBlankFigure", width |-> result.width,
                height |-> result.height, rows |-> result.rows,
                cursorAfter |-> result.cursorAfter])

\* Rows of a small canvas: empty, a narrow glyph, a wide glyph.
FigureRows == {<<>>, <<LatinA>>, <<Hangul, CONTINUATION_CELL>>}

\* Small canvases, and canvases of 2 columns at and next to the largest
\* height a canvas can have (2000), with text in the first and last row.
FigureBases ==
  UNION {{[width |-> MaxFigureBase, height |-> h, lines |-> NewLines(1, rows)] :
            rows \in [1..h -> FigureRows]} : h \in 1..MaxFigureBase}
  \cup {[width |-> 2, height |-> h,
         lines |-> NewLines(1, [i \in 1..h |-> IF i = 1 THEN <<LatinA>>
                                             ELSE IF i = h THEN <<LatinB>> ELSE <<>>])] :
          h \in {1999, 2000}}

\* A figure of the dialog's size inserted at a cell on, or one cell off,
\* the canvas.
InitFigure ==
  \E base \in FigureBases :
    \E row \in {-1, 0, 1, base.height - 1, base.height, base.height + 1} :
      \E col \in (-1)..(base.width + 1) :
        \E fw \in 1..MaxFigure, fh \in 1..MaxFigure :
          StartCall([fn |-> "insertBlankFigure", base |-> base,
                     at |-> [row |-> row, col |-> col],
                     figSize |-> [width |-> fw, height |-> fh]])

NextFigure == ApplyInsertBlankFigure

SpecFigure == InitFigure /\ [][NextFigure]_vars

\* The row and column the figure is inserted at: at, clamped to the canvas.
InsertRow == clampInt(call.at.row, 0, call.base.height)
InsertCol == clampInt(call.at.col, 0, call.base.width)

\* C30: insertBlankFigure keeps every base row above the (clamped)
\* insertion row at its index, puts every base row at or below it
\* figSize.height rows lower, fills the inserted rows with nothing but the
\* left padding of (clamped) at.col spaces, grows the height by
\* figSize.height and makes the width at least at.col + figSize.width.
C30_BlankRowsInserted ==
  (ret.fn = "insertBlankFigure") =>
    /\ ret.height = call.base.height + call.figSize.height
    /\ ret.width >= InsertCol + call.figSize.width
    /\ \A r \in 0..(call.base.height - 1) :
         IF r < InsertRow
         THEN RowOr(ret.rows, r) = RowOr(call.base.lines.rows, r)
         ELSE /\ r + call.figSize.height < ret.height
              /\ RowOr(ret.rows, r + call.figSize.height) = RowOr(call.base.lines.rows, r)
    /\ \A k \in 0..(call.figSize.height - 1) :
         /\ InsertRow + k < ret.height
         /\ RowOr(ret.rows, InsertRow + k) = Repeat(SPACE, InsertCol)

\* ------------------------------------ figureInsert.ts: a clipboard block
\* for (const cell of clipCells) { if (currentClipWidth + w > clip.width)
\*   break; newLineCells.push(cell); currentClipWidth += w }
\* from the cell of index i on: the cells pushed and the width reached
RECURSIVE fitClipCells(_, _, _, _)
fitClipCells(clipCells, i, currentClipWidth, clipWidth) ==
  IF i > Len(clipCells) THEN [cells |-> <<>>, width |-> currentClipWidth]
  ELSE IF currentClipWidth + cellDisplayWidth(clipCells[i]) > clipWidth
    THEN [cells |-> <<>>, width |-> currentClipWidth]
  ELSE [cells |-> <<clipCells[i]>>
                   \o fitClipCells(clipCells, i + 1,
                                   currentClipWidth + cellDisplayWidth(clipCells[i]),
                                   clipWidth).cells,
        width |-> fitClipCells(clipCells, i + 1,
                               currentClipWidth + cellDisplayWidth(clipCells[i]),
                               clipWidth).width]

\* [...leftPadding] + the fitted cells + the spaces up to clip.width
paddedClipRow(insertCol, fitted, clipWidth) ==
  Repeat(SPACE, insertCol) \o fitted.cells
  \o Repeat(SPACE, Max(0, clipWidth - fitted.width))

\* newLineCells.slice(0, nextWidth) with a wide last cell replaced by ' '
truncateClipRow(newLineCells, nextWidth) ==
  IF Len(newLineCells) > nextWidth
  THEN [i \in 1..nextWidth |->
          IF i = nextWidth /\ cellDisplayWidth(newLineCells[i]) = 2 THEN SPACE
          ELSE newLineCells[i]]
  ELSE newLineCells

clipRow(clip, r, insertCol, nextWidth) ==
  truncateClipRow(
    paddedClipRow(insertCol,
                  fitClipCells(toCells(RowOr(clip.lines, r)), 1, 0, clip.width),
                  clip.width),
    nextWidth)

\* Returns the new buffer's width, height and rows and the cursor after it.
\* (opts is never passed, so maxHeight is 2000.)
insertFigureFromClipboard(base, at, clip) ==
  LET maxHeight == 2000
      insertRow == clampInt(at.row, 0, base.height)
      insertCol == clampInt(at.col, 0, base.width)
      nextHeight == clampInt(base.height + clip.height, 1, maxHeight)
      nextWidth == clampInt(Max(base.width, insertCol + clip.width), 1, 2000)
      rowAt(r) ==
        IF r >= insertRow /\ r < insertRow + clip.height
          THEN clipRow(clip, r - insertRow, insertCol, nextWidth)
        ELSE IF r < insertRow /\ r < base.height THEN RowOr(base.lines.rows, r)
        ELSE IF r >= insertRow + clip.height /\ r - clip.height >= insertRow
                /\ r - clip.height < base.height
          THEN RowOr(base.lines.rows, r - clip.height)
        ELSE <<>>
  IN [width |-> nextWidth, height |-> nextHeight,
      rows |-> [i \in 1..nextHeight |-> rowAt(i - 1)],
      cursorAfter |-> CellCursor(clampInt(insertRow + clip.height, 0, nextHeight - 1),
                                 insertCol)]

\* The widest row a block is copied from.
MaxBlockWidth == 3

ApplyInsertFigureFromClipboard ==
  /\ ret.fn = "copyRectFromBuffer"
  /\ ~ret.clip.null
  /\ LET result == insertFigureFromClipboard(call.target, call.at, ret.clip)
     IN Return([fn |-> "insertFigureFromClipboard", clip |-> ret.clip,
                width |-> result.width, height |-> result.height,
                rows |-> result.rows, cursorAfter |-> result.cursorAfter])

\* The small canvases a block is inserted into.
SmallTargets ==
  UNION {{[width |-> MaxBlockWidth, height |-> h, lines |-> NewLines(2, rows)] :
            rows \in [1..h -> {<<>>, <<LatinA>>, <<Hangul, CONTINUATION_CELL>>}]} :
          h \in 1..2}

\* A canvas of the largest width a canvas can have (2000) and one of the
\* largest height.
LargeTargets ==
  {[width |-> 2000, height |-> 1, lines |-> NewLines(2, <<<<LatinA>>>>)],
   [width |-> 2, height |-> 2000,
    lines |-> NewLines(2, [i \in 1..2000 |-> IF i = 1 THEN <<LatinA>>
                                            ELSE IF i = 2000 THEN <<LatinB>>
                                            ELSE <<>>])]}

\* A block copied from a row of a two-row canvas and a cell of the target
\* (a row up to its height, a column up to its width) where it is inserted;
\* the blocks of the two-column canvas are inserted into the large canvases
\* as well.
InitInsertClip ==
  \E w \in 1..MaxBlockWidth :
    \E src \in WellFormedRows(w) :
      \E left \in 0..(w - 1), right \in 0..(w - 1), bottom \in 0..1 :
        \E target \in SmallTargets \cup (IF w = 2 THEN LargeTargets ELSE {}) :
          \E row \in {0, target.height - 1, target.height} :
            \E col \in {0, 1, target.width - 2, target.width - 1, target.width} :
              /\ left <= right
              /\ col >= 0
              /\ StartCall([fn |-> "copyRectFromBuffer",
                            base |-> [width |-> w, height |-> 2,
                                      lines |-> NewLines(1, <<src, Repeat(LatinB, w)>>)],
                            rect |-> [top |-> 0, left |-> left, bottom |-> bottom,
                                      right |-> right],
                            target |-> target, at |-> [row |-> row, col |-> col]])

NextInsertClip == ApplyCopyRectFromBuffer \/ ApplyInsertFigureFromClipboard

SpecInsertClip == InitInsertClip /\ [][NextInsertClip]_vars

\* ------------------------------------------------------------------ C31
\* The row and column of the target the block is inserted at.
TargetRow == clampInt(call.at.row, 0, call.target.height)
TargetCol == clampInt(call.at.col, 0, call.target.width)

\* The cell of clip row r at column c of the block.
BlockCell(clip, r, c) == CellAt(toCells(RowOr(clip.lines, r)), c)

\* C31: insertFigureFromClipboard fills the inserted rows with the block:
\* inserted row r holds at.col spaces and then, at the columns at.col ..
\* at.col + clip.width - 1 that lie below the returned width, the cells of
\* clip row r; a wide glyph whose continuation is cut off at the last column
\* is replaced by a space, and the row is cut at the returned width.
C31_BlockInserted ==
  (ret.fn = "insertFigureFromClipboard") =>
    \A r \in 0..(ret.clip.height - 1) :
      (TargetRow + r < ret.height) =>
        /\ Len(RowOr(ret.rows, TargetRow + r))
             = Min(ret.width, TargetCol + ret.clip.width)
        /\ \A c \in 0..(Len(RowOr(ret.rows, TargetRow + r)) - 1) :
             CellAt(RowOr(ret.rows, TargetRow + r), c) =
               IF c < TargetCol THEN SPACE
               ELSE IF c = ret.width - 1
                       /\ cellDisplayWidth(BlockCell(ret.clip, r, c - TargetCol)) = 2
                 THEN SPACE
               ELSE BlockCell(ret.clip, r, c - TargetCol)

\* ---------------------------------------------- a file opened on its own
\* openFileByPath hands the file's contents to loadBufferFromTextAutoSize.
LoadCalled ==
  /\ call.fn = "loadBufferFromTextAutoSize"
  /\ lastOp = "init"
  /\ Do("loadBufferFromTextAutoSize", loadBufferFromTextAutoSize(St, call.text))

\* The contents of a file: narrow and wide graphemes and the three kinds of
\* line break.
InitLoad ==
  \E t \in ExternalTexts : StartCall([fn |-> "loadBufferFromTextAutoSize", text |-> t])

NextLoad == LoadCalled

SpecLoad == InitLoad /\ [][NextLoad]_vars

\* ------------------------------------------------------------------ C32
IsLineBreak(g) == g = LF \/ g = CR \/ g = CRLF

\* The lines of a text whose line breaks are LF, CRLF and lone CR.
RECURSIVE LinesOf(_)
LinesOf(text) ==
  IF \A i \in 1..Len(text) : ~IsLineBreak(text[i]) THEN <<text>>
  ELSE LET k == CHOOSE i \in 1..Len(text) :
                  IsLineBreak(text[i]) /\ \A j \in 1..(i - 1) : ~IsLineBreak(text[j])
       IN <<SubSeq(text, 1, k - 1)>> \o LinesOf(SubSeq(text, k + 1, Len(text)))

RECURSIVE MaxLineLength(_)
MaxLineLength(ls) ==
  IF ls = <<>> THEN 0 ELSE Max(cellLength(Head(ls)), MaxLineLength(Tail(ls)))

\* C32: loadBufferFromTextAutoSize splits the text into lines on LF, CRLF
\* and lone CR, sets the height to the number of lines and the width to the
\* largest cell length of a line (both clamped to 1..2000), stores every
\* line untruncated as a row of one unlocked visible layer, and pushes the
\* previous state to history.
C32_AutoSizeOnLoad ==
  [][lastOp' = "loadBufferFromTextAutoSize" =>
       /\ height' = clampInt(Len(LinesOf(call.text)), 1, 2000)
       /\ width' = clampInt(MaxLineLength(LinesOf(call.text)), 1, 2000)
       /\ Len(layers') = 1
       /\ layers'[1].visible /\ ~layers'[1].locked
       /\ layers'[1].buffer.width = width' /\ layers'[1].buffer.height = height'
       /\ Len(layers'[1].buffer.lines.rows) = height'
       /\ \A i \in 1..Len(LinesOf(call.text)) :
            ContentCells(layers'[1].buffer.lines.rows[i]) = LinesOf(call.text)[i]
       /\ past' # <<>> /\ StripEntry(Last(past')) = View(St)
       /\ future' = <<>>]_vars

\* ------------------------------------------------------------------ C33
\* The position of the active layer, the one selectActiveBuffer finds (0
\* when activeLayerId names no layer).
ActiveIndex == FindLayerIndex(layers, activeLayerId)

\* C33: commitBuffer touches only the active layer: every other layer, the
\* layer order and activeLayerId are unchanged, and the active layer keeps
\* its id, name, visible and locked; when activeLayerId names no layer, no
\* layer changes.
C33_CommitTouchesActiveOnly ==
  [][lastOp' = "commitBuffer" =>
       /\ activeLayerId' = activeLayerId
       /\ Len(layers') = Len(layers)
       /\ \A i \in DOMAIN layers :
            IF i = ActiveIndex
            THEN /\ layers'[i].id = layers[i].id
                 /\ layers'[i].name = layers[i].name
                 /\ layers'[i].visible = layers[i].visible
                 /\ layers'[i].locked = layers[i].locked
            ELSE layers'[i] = layers[i]]_vars

\* --------------------------------------- copy, then paste in the same place
\* The widest buffer a rectangle is copied from and pasted back into.
MaxCopyBackWidth == 3

\* A rectangle of a two-row buffer is copied; the block is pasted into the
\* same buffer at the rectangle's top-left cell.
InitCopyBack ==
  \E w \in 1..MaxCopyBackWidth :
    \E upper \in LayerRows(w), lower \in DrawRows(w) :
      \E left \in 0..(w - 1), right \in 0..(w - 1), top \in 0..1, bottom \in 0..1 :
        \E base \in {[width |-> w, height |-> 2, lines |-> NewLines(1, <<upper, lower>>)]} :
          /\ left <= right
          /\ top <= bottom
          /\ StartCall([fn |-> "copyRectFromBuffer", base |-> base,
                        rect |-> [top |-> top, left |-> left, bottom |-> bottom,
                                  right |-> right],
                        target |-> base, at |-> [row |-> top, col |-> left]])

NextCopyBack == ApplyCopyRectFromBuffer \/ ApplyPasteRectIntoBuffer

SpecCopyBack == InitCopyBack /\ [][NextCopyBack]_vars

\* ------------------------------------------------------------------ C34
\* A block was copied and pasted back whose left edge is the second half of
\* a wide glyph in one row and whose right edge is the first half of a wide
\* glyph in another.
C34_Witness ==
  /\ ret.fn = "pasteRectIntoBuffer"
  /\ call.target = call.base
  /\ \E r \in call.rect.top..call.rect.bottom :
       getRawCellAt(call.base.lines.rows, r, call.rect.left) = CONTINUATION_CELL
  /\ \E r \in call.rect.top..call.rect.bottom :
       cellDisplayWidth(getRawCellAt(call.base.lines.rows, r, call.rect.right)) = 2

\* C34: after a rectangle of a well-formed buffer is copied and the block is
\* pasted back at the rectangle's top-left cell, every cell of the buffer is
\* what it was.
C34_CopyPasteInPlace ==
  (ret.fn = "pasteRectIntoBuffer") =>
    /\ ret.buffer.width = call.base.width
    /\ ret.buffer.height = call.base.height
    /\ \A r \in 0..(call.base.height - 1), c \in 0..(call.base.width - 1) :
         getRawCellAt(ret.buffer.lines.rows, r, c) = getRawCellAt(call.base.lines.rows, r, c)

\* ------------------------------------- overwriteTextIntoBuffer with no box
\* The widest canvas typed into and the longest text typed.
MaxTypeWidth == 3
MaxTypeLen == 3

TypeAlphabet == {LatinA, Hangul, LF}

\* A text typed or pasted at a cell of a two-row canvas that holds no wall
\* glyph, or at a cell one step outside it.
InitType ==
  \E w \in 1..MaxTypeWidth :
    \E upper \in DrawRows(w), lower \in DrawRows(w) :
      \E at \in CellsOf(w, 2) \cup {[row |-> -1, col |-> -1], [row |-> 2, col |-> w]} :
        \E n \in 0..MaxTypeLen :
          \E text \in [1..n -> TypeAlphabet] :
            StartCall([fn |-> "overwriteTextIntoBuffer",
                       base |-> [width |-> w, height |-> 2,
                                 lines |-> NewLines(1, <<upper, lower>>)],
                       at |-> at, text |-> text, box |-> NullBounds])

NextType == ApplyOverwriteTextIntoBuffer

SpecType == InitType /\ [][NextType]_vars

\* ------------------------------------------------------------------ C35
\* The cell where the writing starts: the insertion point moved into the
\* buffer and off a wide glyph's second half.
TypeStart ==
  LET row == clampInt(call.at.row, 0, call.base.height - 1)
      col == clampInt(call.at.col, 0, call.base.width - 1)
  IN [row |-> row,
      col |-> IF getRawCellAt(call.base.lines.rows, row, col) = CONTINUATION_CELL
              THEN col - 1 ELSE col]

\* Where the graphemes of text from the i-th on go when the pen is at
\* (row, col): a grapheme that does not fit before the right edge goes to
\* column 0 of the next row, and nothing goes below the last row. A wide
\* grapheme that fits in no row is not written or, with blank, is written as
\* a space on the next row.
RECURSIVE Placed(_, _, _, _, _, _, _)
Placed(text, i, row, col, w0, h0, blank) ==
  IF i > Len(text) \/ row >= h0 THEN <<>>
  ELSE IF col + cellDisplayWidth(text[i]) > w0
  THEN IF col > 0 THEN Placed(text, i, row + 1, 0, w0, h0, blank)
       ELSE IF blank /\ row + 1 < h0
       THEN <<[row |-> row + 1, col |-> 0, ch |-> SPACE]>>
              \o Placed(text, i + 1, row + 1, 1, w0, h0, blank)
       ELSE <<>>
  ELSE <<[row |-> row, col |-> col, ch |-> text[i]]>>
         \o Placed(text, i + 1, row, col + cellDisplayWidth(text[i]), w0, h0, blank)

TypePlaced(blank) ==
  Placed(call.text, 1, TypeStart.row, TypeStart.col, call.base.width, call.base.height,
         blank)

\* The cell (r, c) holds a grapheme of the text or its second half.
CoveredBy(p, r, c) ==
  /\ p.row = r
  /\ p.col = c \/ (cellDisplayWidth(p.ch) = 2 /\ p.col + 1 = c)

\* The cell (r, c) of the base shares a wide glyph with a covered cell.
PartnerCovered(placed, rows, r, c) ==
  \/ /\ getRawCellAt(rows, r, c) = CONTINUATION_CELL
     /\ \E k \in DOMAIN placed : CoveredBy(placed[k], r, c - 1)
  \/ /\ cellDisplayWidth(getRawCellAt(rows, r, c)) = 2
     /\ \E k \in DOMAIN placed : CoveredBy(placed[k], r, c + 1)

TypedNoLineBreak == \A i \in DOMAIN call.text : call.text[i] # LF

\* The buffer keeps its size and the cursor returned is in it, on no wide
\* glyph's second half.
TypeFrame ==
  /\ ret.next.width = call.base.width
  /\ ret.next.height = call.base.height
  /\ Len(ret.next.lines.rows) = call.base.height
  /\ ret.cursor.row \in 0..(call.base.height - 1)
  /\ ret.cursor.col \in 0..(call.base.width - 1)
  /\ getRawCellAt(ret.next.lines.rows, ret.cursor.row, ret.cursor.col)
       # CONTINUATION_CELL

\* Every grapheme is in its place, whole.
TypeWritten(placed) ==
  \A k \in DOMAIN placed :
    /\ getRawCellAt(ret.next.lines.rows, placed[k].row, placed[k].col) = placed[k].ch
    /\ cellDisplayWidth(placed[k].ch) = 2 =>
         getRawCellAt(ret.next.lines.rows, placed[k].row, placed[k].col + 1)
           = CONTINUATION_CELL

\* Every other cell is what it was, or a space where the other half of its
\* wide glyph was written over.
TypeRest(placed) ==
  \A r \in 0..(call.base.height - 1), c \in 0..(call.base.width - 1) :
    (\A k \in DOMAIN placed : ~CoveredBy(placed[k], r, c)) =>
      \/ getRawCellAt(ret.next.lines.rows, r, c) = getRawCellAt(call.base.lines.rows, r, c)
      \/ /\ getRawCellAt(ret.next.lines.rows, r, c) = SPACE
         /\ PartnerCovered(placed, call.base.lines.rows, r, c)

TypedAsPlaced(placed) == TypeWritten(placed) /\ TypeRest(placed)

\* C35: with no box around the insertion point overwriteTextIntoBuffer
\* writes the graphemes left to right, wraps from the last column to column
\* 0 of the next row, moves a wide grapheme that does not fit before the
\* right edge to the next row, writes nothing below the last row, keeps
\* width and height and returns a cursor inside the buffer on no
\* continuation cell.
C35_TypedOutsideBox ==
  (ret.fn = "overwriteTextIntoBuffer") =>
    /\ TypeFrame
    /\ TypedNoLineBreak => TypedAsPlaced(TypePlaced(FALSE))

\* C35, amended: the same, and in a buffer of one column a wide grapheme is
\* written as a space on the next row.
C35_TypedOutsideBoxOrBlank ==
  (ret.fn = "overwriteTextIntoBuffer") =>
    /\ TypeFrame
    /\ TypedNoLineBreak => TypedAsPlaced(TypePlaced(TRUE))

\* A text was typed whose wide grapheme went to the next row and whose end
\* did not fit above the bottom edge.
C35_Witness ==
  /\ ret.fn = "overwriteTextIntoBuffer"
  /\ TypedNoLineBreak
  /\ call.base.width >= 2
  /\ Len(TypePlaced(TRUE)) < Len(call.text)
  /\ \E k \in DOMAIN TypePlaced(TRUE) :
       /\ cellDisplayWidth(TypePlaced(TRUE)[k].ch) = 2
       /\ TypePlaced(TRUE)[k].col = 0
       /\ TypePlaced(TRUE)[k].row = TypeStart.row + 1
       /\ k = 1 \/ TypePlaced(TRUE)[k - 1].row = TypeStart.row

\* ------------------------------------------------- App: find next, find previous
\* What is typed into the find box.
FindBoxQueries == {<<>>, <<LatinA>>, <<Hangul>>, <<LatinA, LatinA>>, <<SPACE>>}

\* The canvases searched: one line, or two lines the second of which is
\* 'aa' or starts with a wide glyph, and the boxed canvas.
FindCanvases ==
  {TextCanvas(first, rest) :
     first \in ReplaceLines,
     rest \in {<<>>, <<<<LatinA, LatinA>>>>, <<<<Hangul, LatinA>>>>}}
  \cup {BoxedCanvas}

\* A find button pressed: the handler's state changes; the presses are not
\* counted, the states of a search repeat.
Pressed(op, a) ==
  /\ \E after \in {a} :
       /\ width' = after.s.width
       /\ height' = after.s.height
       /\ layers' = after.s.layers
       /\ activeLayerId' = after.s.activeLayerId
       /\ cursor' = after.s.cursor
       /\ past' = after.s.past
       /\ future' = after.s.future
       /\ ui' = after.u
  /\ lastOp' = op
  /\ UNCHANGED <<steps, saved, call, ret>>

\* findNext() and findPrev() without opts: from is the cursor
FindNextButton ==
  /\ call.fn = "find"
  /\ call.dir = "next"
  /\ Pressed("findNext", findNext(Ap, getBuffer(St), cursorOrOrigin(St)))

FindPrevButton ==
  /\ call.fn = "find"
  /\ call.dir = "prev"
  /\ Pressed("findPrev", findPrev(Ap, getBuffer(St), cursorOrOrigin(St)))

\* The find box filled in over an opened canvas, the cursor not yet placed
\* or on any cell; the user keeps to one of the two buttons.
InitFind ==
  \E s \in FindCanvases :
    \E c \in {NullCursor} \cup {CellCursor(m.row, m.col) : m \in CellsOf(s.width, s.height)} :
      \E q \in FindBoxQueries, dir \in {"next", "prev"} :
        /\ StoreStart(setCursor(s, c))
        /\ saved = NoFile
        /\ call = [fn |-> "find", dir |-> dir]
        /\ ret = NoRet
        /\ ui = [InitialUi EXCEPT !.findQuery = q]

NextFind == FindNextButton \/ FindPrevButton

\* ENABLED <<NextFind>>_vars: a press changes the state
FindMoves ==
  \/ /\ call.fn = "find"
     /\ call.dir = "next"
     /\ lastOp # "findNext" \/ findNext(Ap, getBuffer(St), cursorOrOrigin(St)) # Ap
  \/ /\ call.fn = "find"
     /\ call.dir = "prev"
     /\ lastOp # "findPrev" \/ findPrev(Ap, getBuffer(St), cursorOrOrigin(St)) # Ap

\* WF_vars(NextFind), the user going on pressing, with ENABLED written out
FairFind == []<>(~FindMoves) \/ []<><<NextFind>>_vars

SpecFind == InitFind /\ [][NextFind]_vars /\ FairFind

\* ------------------------------------------------------------------ C36
\* The cells where the query matches in the active buffer.
FindCells ==
  {[row |-> m.row, col |-> m.col] :
     m \in {computeMatches(getBuffer(St), ui.findQuery)[i]
              : i \in DOMAIN computeMatches(getBuffer(St), ui.findQuery)}}

\* The first cell of a non-empty set in row-major order, and the last.
FirstCell(cells) == CHOOSE m \in cells : \A n \in cells : n = m \/ RowMajorBefore(m, n)
LastCell(cells) == CHOOSE m \in cells : \A n \in cells : n = m \/ RowMajorBefore(n, m)

\* The first match strictly after from, else the first match.
FirstAfter(cells, from) ==
  IF \E m \in cells : RowMajorBefore(from, m)
  THEN FirstCell({m \in cells : RowMajorBefore(from, m)})
  ELSE FirstCell(cells)

\* The last match strictly before from, else the last match.
LastBefore(cells, from) ==
  IF \E m \in cells : RowMajorBefore(m, from)
  THEN LastCell({m \in cells : RowMajorBefore(m, from)})
  ELSE LastCell(cells)

\* Each call goes to the first match strictly after (the last strictly
\* before) the reference cell, or to the first (last) match.
FindStep ==
  /\ (lastOp' = "findNext" /\ FindCells # {}) =>
       cursor' = LET m == FirstAfter(FindCells, cursorOrOrigin(St))
                 IN CellCursor(m.row, m.col)
  /\ (lastOp' = "findPrev" /\ FindCells # {}) =>
       cursor' = LET m == LastBefore(FindCells, cursorOrOrigin(St))
                 IN CellCursor(m.row, m.col)

\* C36: each findNext goes to the first match strictly after the reference
\* cell or wraps to the first match, each findPrev to the last match strictly
\* before it or wraps to the last; pressed again and again from the match
\* returned, either button comes to every match of the buffer, over and over.
C36_FindVisitsAll ==
  /\ [][FindStep]_vars
  /\ \A r \in 0..1, c \in 0..(MaxFindWidth - 1) :
       []([row |-> r, col |-> c] \in FindCells => <>(cursor = CellCursor(r, c)))

\* The search is on the last of three or more matches after findNext, the
\* press that wraps next.
C36_Witness ==
  /\ lastOp = "findNext"
  /\ Cardinality(FindCells) >= 3
  /\ ~cursor.null
  /\ [row |-> cursor.row, col |-> cursor.col] = LastCell(FindCells)

\* ------------------------------------------- both insertions called directly
InitInsert == InitFigure \/ InitInsertClip

NextInsert == NextFigure \/ NextInsertClip

SpecInsert == InitInsert /\ [][NextInsert]_vars

\* ------------------------------------------------------------------ C37
\* The columns a row takes: one for each cell, and one more for every wide
\* glyph that has no continuation cell after it.
ColumnsOf(row) ==
  Len(row) + Cardinality({i \in DOMAIN row :
                            /\ cellDisplayWidth(row[i]) = 2
                            /\ CellOr(row, i + 1) # CONTINUATION_CELL})

\* C37: insertBlankFigure and insertFigureFromClipboard return a well-formed
\* buffer: as many rows as the returned height, no row wider than the
\* returned width, width and height from 1 to 2000.
C37_InsertedWellFormed ==
  (ret.fn \in {"insertBlankFigure", "insertFigureFromClipboard"}) =>
    /\ Len(ret.rows) = ret.height
    /\ \A i \in DOMAIN ret.rows : ColumnsOf(ret.rows[i]) <= ret.width
    /\ ret.width \in 1..2000
    /\ ret.height \in 1..2000

\* ------------------------------------------------- sizes of any kind
\* A JavaScript number: NaN and the infinities, or a multiple of one half.
NotFinite == [finite |-> FALSE, halves |-> 0]
Halves(n) == [finite |-> TRUE, halves |-> n]

\* Math.floor(v) of a finite number
floor(v) == v.halves \div 2

\* clampInt on any number: if (!Number.isFinite(v)) return min
clampNumber(v, min, max) ==
  IF ~v.finite THEN min ELSE clampInt(floor(v), min, max)

\* newBuffer(width, height) with any numbers; the integers in range that
\* clampNumber returns are left as they are by newBuffer's clamp.
newBufferOf(s, w, h) == newBuffer(s, clampNumber(w, 1, 2000), clampNumber(h, 1, 2000))

\* The sizes asked for: not finite, -0.5, 0, 1.5, 2000.5, 2001.
RequestedSizes ==
  {NotFinite, Halves(-1), Halves(0), Halves(3), Halves(4001), Halves(4002)}

\* The calls of newBuffer in one session.
MaxResizes == 2

\* newBuffer called with a requested size, which call keeps.
NewBufferRequested ==
  /\ steps < MaxResizes
  /\ \E w \in RequestedSizes, h \in RequestedSizes :
       \E s \in {newBufferOf(St, w, h)} :
         /\ width' = s.width
         /\ height' = s.height
         /\ layers' = s.layers
         /\ activeLayerId' = s.activeLayerId
         /\ cursor' = s.cursor
         /\ past' = s.past
         /\ future' = s.future
         /\ call' = [fn |-> "newBuffer", width |-> w, height |-> h]
  /\ lastOp' = "newBuffer"
  /\ steps' = steps + 1
  /\ UNCHANGED <<saved, ret, ui>>

\* A file opened: empty, one line, or lines of different lengths.
OpenedTexts == {<<>>, <<LatinA, LatinB, CRLF, Hangul>>, <<LF, LF>>}

OpenText ==
  \E t \in OpenedTexts : Do("loadBufferFromTextAutoSize", loadBufferFromTextAutoSize(St, t))

NextSizes == NewBufferRequested \/ OpenText \/ ApplyInsertFigure \/ Undo \/ Redo

SpecSizes == Init /\ [][NextSizes]_vars

\* ------------------------------------------------------------------ C38
SizeInRange(w, h) == w \in 1..2000 /\ h \in 1..2000

MaxSaveLen == 4

\* Contents over a letter, NUL, CR and LF.
SaveTexts == UNION {[1..k -> {97, 0, 13, 10}] : k \in 0..MaxSaveLen}

ApplyNormalizeForSave ==
  /\ call.fn = "normalizeForSave"
  /\ ret.fn = "none"
  /\ Return([fn |-> "normalizeForSave", text |-> normalizeForSave(call.text, call.newline)])

\* the result is normalized once more, to the mode call.again; direct is
\* the original text normalized to that mode
ApplyNormalizeAgain ==
  /\ ret.fn = "normalizeForSave"
  /\ Return([fn |-> "normalizeAgain", first |-> ret.text,
             text |-> normalizeForSave(ret.text, call.again),
             direct |-> normalizeForSave(call.text, call.again)])

InitNormalize ==
  \E t \in SaveTexts, newline \in ExportNewlines, again \in ExportNewlines :
    StartCall([fn |-> "normalizeForSave", text |-> t, newline |-> newline, again |-> again])

NextNormalize == ApplyNormalizeForSave \/ ApplyNormalizeAgain

SpecNormalize == InitNormalize /\ [][NextNormalize]_vars

\* ------------------------------------------------------------------ C39
\* The break of a mode.
BreakOf(newline) == IF newline = "crlf" THEN <<13, 10>> ELSE <<10>>

\* The text without its NULs and with each of its line breaks, a CR directly
\* followed by an LF, another CR or another LF, replaced by the mode's break.
RECURSIVE BreaksReplaced(_, _)
BreaksReplaced(cps, newline) ==
  IF cps = <<>> THEN <<>>
  ELSE IF Head(cps) = 0 THEN BreaksReplaced(Tail(cps), newline)
  ELSE IF Head(cps) = 13 /\ Len(cps) >= 2 /\ cps[2] = 10
       THEN BreakOf(newline) \o BreaksReplaced(Tail(Tail(cps)), newline)
  ELSE IF Head(cps) \in {13, 10}
       THEN BreakOf(newline) \o BreaksReplaced(Tail(cps), newline)
  ELSE <<Head(cps)>> \o BreaksReplaced(Tail(cps), newline)

\* Normalizing again to the same mode changes nothing; to the other mode it
\* gives what normalizing the original text to that mode gives.
NormalizedAgain ==
  (ret.fn = "normalizeAgain") =>
    /\ call.again = call.newline => ret.text = ret.first
    /\ ret.text = ret.direct

\* C39: normalizeForSave returns the text with every NUL removed and every
\* line break (CRLF, lone CR, LF) replaced by the mode's break, nothing else
\* changed; it is idempotent, and normalizing to one mode and then to the
\* other equals normalizing directly to the other.
C39_NormalizedForSave ==
  /\ (ret.fn = "normalizeForSave") => ret.text = BreaksReplaced(call.text, call.newline)
  /\ NormalizedAgain

\* The same with the line breaks taken from the text left when the NULs are
\* removed, where a CR and an LF with only NULs between them are one break.
NormalizedAfterNulRemoval ==
  /\ (ret.fn = "normalizeForSave") =>
       ret.text = BreaksReplaced(SelectSeqNot(call.text, 0), call.newline)
  /\ NormalizedAgain

\* ------------------------------------------------- App: open and save
\* stripUtf8Bom
stripUtf8Bom(text) ==
  IF text # <<>> /\ text[1] = <<65279>> THEN Tail(text) ELSE text

\* prev.filter((p) => !drop.includes(p))
RECURSIVE withoutPaths(_, _)
withoutPaths(paths, drop) ==
  IF paths = <<>> THEN <<>>
  ELSE IF Head(paths) \in drop THEN withoutPaths(Tail(paths), drop)
  ELSE <<Head(paths)>> \o withoutPaths(Tail(paths), drop)

\* prev.filter((p) => p !== path)
withoutPath(paths, path) == withoutPaths(paths, {path})

\* the recent files after path was opened or written
recentWith(f, path) ==
  IF \E i \in DOMAIN f.pinned : f.pinned[i] = path
  THEN withoutPath(f.recent, path)
  ELSE LET rest == withoutPaths(f.recent, {path} \cup {f.pinned[i] : i \in DOMAIN f.pinned})
       IN SubSeq(<<path>> \o rest, 1, Min(10, Len(rest) + 1))

\* if (/\r\n/.test(contents)) setExportNewline('crlf')
\* else if (/\n/.test(contents)) setExportNewline('lf')
newlineOf(contents, current) ==
  IF \E i \in DOMAIN contents : contents[i] = CRLF THEN "crlf"
  ELSE IF \E i \in DOMAIN contents : contents[i] = LF THEN "lf"
  ELSE current

\* setLastError(...)
failedWith(a, error) == AppState(a.s, [a.u EXCEPT !.file.lastError = error])

\* openFileByPath after read_text_file returned contents
opened(a, path, contents) ==
  AppState(loadBufferFromTextAutoSize(a.s, stripUtf8Bom(contents)),
           [a.u EXCEPT !.file.exportNewline = newlineOf(stripUtf8Bom(contents), @),
                       !.file.path = path,
                       !.file.origin = "opened",
                       !.file.recent = recentWith(a.u.file, path)])

\* openFileByPath whose catch empties the canvas
openFailed_Emptied(a, path, filePath) ==
  AppState(loadBufferFromTextAutoSize(a.s, <<>>), failedWith(a, "loadError").u)

\* the catch of openFileByPath; filePath is the path of the render that
\* created the handler
openFailed(a, path, filePath) ==
  AppState(a.s,
           [a.u EXCEPT !.file.lastError = "loadError",
                       !.file.recent = withoutPath(@, path),
                       !.file.pinned = withoutPath(@, path),
                       !.file.path = IF filePath = path THEN "" ELSE @,
                       !.file.origin = IF filePath = path THEN "none" ELSE @])

\* tryWrite after write_text_file returned; setFileOrigin('none') follows a
\* write to the path picked in the dialog
written(a, path, picked) ==
  AppState(a.s,
           [a.u EXCEPT !.file.lastError = "",
                       !.file.path = path,
                       !.file.recent = recentWith(a.u.file, path),
                       !.file.origin = IF picked THEN "none" ELSE @])

\* The paths of the session.
FilePaths == {"a.txt", "b.txt"}

\* What read_text_file returns: with a byte order mark, with line breaks.
FileContents == {<<>>, <<<<65279>>, LatinA, CRLF, Hangul>>, <<LatinA, LF>>}

\* The file operations started in one session.
MaxFileOps == 2

\* A step of a file operation: the store and the component as in a, the
\* operation waiting for pending, the file on disk as in disk.
FileStep(op, a, pending, disk) ==
  /\ \E after \in {a} :
       /\ width' = after.s.width
       /\ height' = after.s.height
       /\ layers' = after.s.layers
       /\ activeLayerId' = after.s.activeLayerId
       /\ cursor' = after.s.cursor
       /\ past' = after.s.past
       /\ future' = after.s.future
       /\ ui' = after.u
  /\ call' = pending
  /\ saved' = disk
  /\ lastOp' = op
  /\ UNCHANGED <<ret>>

\* openFileByPath up to await invoke('read_text_file')
OpenFileByPath ==
  /\ call = NoCall
  /\ steps < MaxFileOps
  /\ steps' = steps + 1
  /\ \E path \in FilePaths :
       FileStep("openFileByPath", failedWith(Ap, ""),
                [fn |-> "read_text_file", path |-> path, filePath |-> ui.file.path], saved)

ReadFulfilled ==
  /\ call.fn = "read_text_file"
  /\ UNCHANGED steps
  /\ \E contents \in FileContents :
       FileStep("fileOpened", opened(Ap, call.path, contents), NoCall, saved)

ReadRejected ==
  /\ call.fn = "read_text_file"
  /\ UNCHANGED steps
  /\ FileStep("openFailed", openFailed(Ap, call.path, call.filePath), NoCall, saved)

\* saveBufferText up to its first await: the write to filePath, unless the
\* user declines to overwrite an opened file, or the save dialog
SaveBufferTextStarted ==
  /\ call = NoCall
  /\ steps < MaxFileOps
  /\ steps' = steps + 1
  /\ \E forceDialog \in BOOLEAN, padRight \in BOOLEAN, ok \in BOOLEAN :
       LET contents == saveContents(St, padRight, ui.file.exportNewline)
           disk == [written |-> FALSE, contents |-> contents, padRight |-> padRight,
                    newline |-> ui.file.exportNewline]
       IN IF ui.file.path # "" /\ ~forceDialog
          THEN IF ui.file.origin = "opened" /\ ~ok
               THEN FileStep("saveDeclined", failedWith(Ap, ""), NoCall, saved)
               ELSE FileStep("saveBufferText", failedWith(Ap, ""),
                             [fn |-> "write_text_file", path |-> ui.file.path,
                              picked |-> FALSE, file |-> disk], saved)
          ELSE FileStep("saveBufferText", failedWith(Ap, ""),
                        [fn |-> "save", file |-> disk], saved)

WriteFulfilled ==
  /\ call.fn = "write_text_file"
  /\ UNCHANGED steps
  /\ FileStep("fileSaved", written(Ap, call.path, call.picked), NoCall,
              [call.file EXCEPT !.written = TRUE])

\* the write fails: after the write to filePath the save dialog opens
WriteRejected ==
  /\ call.fn = "write_text_file"
  /\ UNCHANGED steps
  /\ FileStep("saveFailed", failedWith(Ap, "saveError"),
              IF call.picked THEN NoCall ELSE [fn |-> "save", file |-> call.file], saved)

\* the save dialog returns: nothing, a path isValidSavePath refuses, or a
\* path to write to
DialogClosed ==
  /\ call.fn = "save"
  /\ UNCHANGED steps
  /\ \/ FileStep("saveCancelled", Ap, NoCall, saved)
     \/ FileStep("saveRefused", failedWith(Ap, "invalidSavePath"), NoCall, saved)
     \/ \E path \in FilePaths :
          FileStep("saveBufferText", Ap,
                   [fn |-> "write_text_file", path |-> path, picked |-> TRUE,
                    file |-> call.file], saved)

\* the save dialog throws
DialogRejected ==
  /\ call.fn = "save"
  /\ UNCHANGED steps
  /\ FileStep("saveFailed", failedWith(Ap, "saveError"), NoCall, saved)

\* The canvas is edited while a file operation is under way or between two.
EditCanvas ==
  /\ \E b \in CommitInputs(St) : Do("commitBuffer", commitBuffer(St, b))

\* A session on the small canvas, no file yet or the file of the last
\* session restored from storage.
InitFile ==
  \E path \in {"", "a.txt"} :
    /\ StoreStart(SmallSession)
    /\ saved = NoFile
    /\ call = NoCall
    /\ ret = NoRet
    /\ ui = [InitialUi EXCEPT !.file.path = path,
                              !.file.origin = IF path = "" THEN "none" ELSE "opened",
                              !.file.recent = IF path = "" THEN <<>> ELSE <<path>>]

NextFile ==
  \/ OpenFileByPath
  \/ ReadFulfilled
  \/ ReadRejected
  \/ SaveBufferTextStarted
  \/ WriteFulfilled
  \/ WriteRejected
  \/ DialogClosed
  \/ DialogRejected
  \/ EditCanvas

SpecFile == InitFile /\ [][NextFile]_vars

\* ------------------------------------------------------------------ C40
\* The steps of a save, and those of an open that did not read the file.
FailedFileSteps ==
  {"openFileByPath", "openFailed", "saveBufferText", "saveDeclined", "fileSaved",
   "saveFailed", "saveCancelled", "saveRefused"}

\* C40: no step of a save, whether the write fails, the path is refused or
\* the dialog is cancelled, and no step of an open whose read fails changes
\* the layers, past, future or cursor of the store.
C40_FailedFileOpKeepsModel ==
  [][lastOp' \in FailedFileSteps =>
       /\ layers' = layers
       /\ past' = past
       /\ future' = future
       /\ cursor' = cursor
       /\ width' = width
       /\ height' = height
       /\ activeLayerId' = activeLayerId]_vars

\* After an edit, a save whose write failed and whose dialog was then
\* cancelled; the error is shown, nothing was written, the edit is there.
C40_Witness ==
  /\ lastOp = "saveCancelled"
  /\ ui.file.lastError = "saveError"
  /\ ~saved.written
  /\ Len(past) > Len(SmallSession.past)

====
